---- MODULE Spec2Model ----
(***************************************************************************)
(* A model of the graviton/tachyon pipeline: the Pratt parser              *)
(* (tachyon_frontend/src/parser.rs), the lowerer and the stack VM          *)
(* (tachyon_backend/src/vm.rs) and the shell loop (src/repl.rs).           *)
(***************************************************************************)
EXTENDS Integers, Sequences, FiniteSets, TLC

(***************************************************************************)
(* f64.  A number is a pair [n, d]:                                        *)
(*   finite, non-zero : n # 0, d > 0, n/d in lowest terms                  *)
(*   +0.0 : [0, 1]     -0.0 : [0, -1]                                      *)
(*   +inf : [1, 0]     -inf : [-1, 0]      NaN : [0, 0]                    *)
(* The inputs of the model keep every finite result a small dyadic         *)
(* rational, which f64 represents exactly, so no rounding is modelled.     *)
(***************************************************************************)
Abs(i) == IF i < 0 THEN 0 - i ELSE i

RECURSIVE Gcd(_, _)
Gcd(a, b) == IF b = 0 THEN a ELSE Gcd(b, a % b)

F64(n, d) == [n |-> n, d |-> d]

F64Int(i) == IF i = 0 THEN F64(0, 1) ELSE F64(i, 1)

F64NaN == F64(0, 0)

IsNaN(x) == x.n = 0 /\ x.d = 0

IsInf(x) == x.n # 0 /\ x.d = 0

IsZero(x) == x.n = 0 /\ x.d # 0

Sgn(x) == IF x.n > 0 THEN 1 ELSE IF x.n < 0 THEN -1 ELSE x.d

\* The finite value n/d (d # 0, n # 0) in lowest terms with d > 0.
F64Norm(n, d) ==
    LET s == IF (n < 0) = (d < 0) THEN 1 ELSE -1
        g == Gcd(Abs(n), Abs(d))
    IN  F64(s * (Abs(n) \div g), Abs(d) \div g)

F64Neg(x) ==
    IF IsNaN(x) THEN x
    ELSE IF IsZero(x) THEN F64(0, 0 - x.d)
    ELSE F64(0 - x.n, x.d)

F64Add(a, b) ==
    IF IsNaN(a) \/ IsNaN(b) THEN F64NaN
    ELSE IF IsInf(a) /\ IsInf(b) THEN (IF a.n = b.n THEN a ELSE F64NaN)
    ELSE IF IsInf(a) THEN a
    ELSE IF IsInf(b) THEN b
    ELSE IF IsZero(a) /\ IsZero(b) THEN (IF a.d = -1 /\ b.d = -1 THEN a ELSE F64(0, 1))
    ELSE IF IsZero(a) THEN b
    ELSE IF IsZero(b) THEN a
    ELSE LET n == a.n * b.d + b.n * a.d
         IN  IF n = 0 THEN F64(0, 1) ELSE F64Norm(n, a.d * b.d)

F64Sub(a, b) == F64Add(a, F64Neg(b))

F64Mul(a, b) ==
    IF IsNaN(a) \/ IsNaN(b) THEN F64NaN
    ELSE IF (IsZero(a) /\ IsInf(b)) \/ (IsInf(a) /\ IsZero(b)) THEN F64NaN
    ELSE IF IsInf(a) \/ IsInf(b) THEN F64(Sgn(a) * Sgn(b), 0)
    ELSE IF IsZero(a) \/ IsZero(b) THEN F64(0, Sgn(a) * Sgn(b))
    ELSE F64Norm(a.n * b.n, a.d * b.d)

F64Div(a, b) ==
    IF IsNaN(a) \/ IsNaN(b) THEN F64NaN
    ELSE IF (IsZero(a) /\ IsZero(b)) \/ (IsInf(a) /\ IsInf(b)) THEN F64NaN
    ELSE IF IsInf(a) \/ IsZero(b) THEN F64(Sgn(a) * Sgn(b), 0)
    ELSE IF IsZero(a) \/ IsInf(b) THEN F64(0, Sgn(a) * Sgn(b))
    ELSE F64Norm(a.n * b.d, a.d * b.n)

\* -1, 0, 1 for a < b, a == b, a > b; 2 when unordered (a NaN operand).
F64Cmp(a, b) ==
    IF IsNaN(a) \/ IsNaN(b) THEN 2
    ELSE IF IsZero(a) /\ IsZero(b) THEN 0
    ELSE IF IsInf(a) \/ IsInf(b)
         THEN (IF IsInf(a) /\ IsInf(b) /\ a.n = b.n THEN 0
               ELSE IF IsInf(a) THEN a.n ELSE 0 - b.n)
    ELSE LET l == a.n * Abs(b.d)
             r == b.n * Abs(a.d)
         IN  IF l < r THEN -1 ELSE IF l > r THEN 1 ELSE 0

F64Eq(a, b) == F64Cmp(a, b) = 0

F64Gt(a, b) == F64Cmp(a, b) = 1

F64Lt(a, b) == F64Cmp(a, b) = -1

(***************************************************************************)
(* Tokens (the lexer's output, which the parser consumes).                 *)
(***************************************************************************)
Token(type, num, str) == [token_type |-> type, num |-> num, str |-> str]

Tok(type) == Token(type, F64Int(0), "")

TNum(i) == Token("Number", F64Int(i), "")

TId(name) == Token("Identifier", F64Int(0), name)

TokEof == Tok("Eof")

(***************************************************************************)
(* The AST (ast.rs), as the parser builds it and the lowerer matches it.   *)
(***************************************************************************)
AstIdentifier(name) == [node |-> "Identifier", name |-> name]

AstNumber(x) == [node |-> "Number", num |-> x]

AstString(s) == [node |-> "String", str |-> s]

AstBool(b) == [node |-> "Bool", b |-> b]

AstStatement(e) == [node |-> "Statement", expr |-> e]

AstBinary(op, l, r) == [node |-> "Binary", op |-> op, l |-> l, r |-> r]

AstUnary(op, e) == [node |-> "Unary", op |-> op, expr |-> e]

AstReturn(e) == [node |-> "Return", expr |-> e]

AstBlock(exprs) == [node |-> "Block", exprs |-> exprs]

\* elseifs: a sequence of <<cond, expr>>; elseexpr: << >> (None) or <<e>> (Some).
AstIfElse(c, e, elseifs, elseexpr) ==
    [node |-> "IfElse", cond |-> c, expr |-> e, elseifs |-> elseifs, elseexpr |-> elseexpr]

AstWhile(c, e) == [node |-> "While", cond |-> c, expr |-> e]

\* set_expr: << >> (None) or <<e>> (Some).
AstLet(name, mutable, set_expr) ==
    [node |-> "Let", name |-> name, mutable |-> mutable, set_expr |-> set_expr]

AstFnCall(callee, args) == [node |-> "FnCall", callee |-> callee, args |-> args]

(***************************************************************************)
(* The parser (parser.rs).                                                 *)
(***************************************************************************)
PrecNone == 0
PrecAssignment == 1
PrecOr == 2
PrecAnd == 3
PrecEquality == 4
PrecComparison == 5
PrecTerm == 6
PrecFactor == 7
PrecUnary == 8
PrecCall == 9
PrecPrimary == 10

ParseRule(prefix, infix, precedence) ==
    [prefix |-> prefix, infix |-> infix, precedence |-> precedence]

PARSER_RULE_TABLE(token_type) ==
    CASE token_type = "LParen"       -> ParseRule("grouping", "nil_func", PrecCall)
      [] token_type = "LCurly"       -> ParseRule("block",    "nil_func", PrecNone)
      [] token_type = "Plus"         -> ParseRule("nil_func", "binary",   PrecTerm)
      [] token_type = "Minus"        -> ParseRule("unary",    "binary",   PrecTerm)
      [] token_type = "Star"         -> ParseRule("nil_func", "binary",   PrecFactor)
      [] token_type = "Slash"        -> ParseRule("nil_func", "binary",   PrecFactor)
      [] token_type = "Bang"         -> ParseRule("nil_func", "binary",   PrecNone)
      [] token_type = "BangEqual"    -> ParseRule("nil_func", "binary",   PrecComparison)
      [] token_type = "Equal"        -> ParseRule("nil_func", "binary",   PrecAssignment)
      [] token_type = "EqualEqual"   -> ParseRule("nil_func", "binary",   PrecEquality)
      [] token_type = "Greater"      -> ParseRule("nil_func", "binary",   PrecComparison)
      [] token_type = "GreaterEqual" -> ParseRule("nil_func", "binary",   PrecComparison)
      [] token_type = "Less"         -> ParseRule("nil_func", "binary",   PrecComparison)
      [] token_type = "LessEqual"    -> ParseRule("nil_func", "binary",   PrecComparison)
      [] token_type = "String"       -> ParseRule("literal",  "nil_func", PrecNone)
      [] token_type = "Number"       -> ParseRule("literal",  "nil_func", PrecNone)
      [] token_type = "KwLet"        -> ParseRule("let_",     "nil_func", PrecNone)
      [] token_type = "KwIf"         -> ParseRule("if_else",  "nil_func", PrecNone)
      [] token_type = "KwWhile"      -> ParseRule("while_",   "nil_func", PrecNone)
      [] token_type = "KwTrue"       -> ParseRule("literal",  "nil_func", PrecNone)
      [] token_type = "KwFalse"      -> ParseRule("literal",  "nil_func", PrecNone)
      \* RParen, RCurly, LBracket, RBracket, Comma, Dot, Semicolon, Colon,
      \* Identifier, KwAnd, KwOr, KwSelf, KwStruct, KwReturn, KwImport, KwDef,
      \* KwMut, KwElse, KwFor, KwBreak, KwNil, Err, Eof
      [] OTHER                       -> ParseRule("nil_func", "nil_func", PrecNone)

get_rule(token_type) == PARSER_RULE_TABLE(token_type)

\* Parser { lex, current, previous, prefix_node }: lex is what the lexer has
\* still to yield.
Parser(lex, current, previous, prefix_node) ==
    [lex |-> lex, current |-> current, previous |-> previous, prefix_node |-> prefix_node]

advance(p) ==
    IF Len(p.lex) > 0
    THEN [p EXCEPT !.previous = p.current, !.current = Head(p.lex), !.lex = Tail(p.lex)]
    ELSE [p EXCEPT !.previous = p.current, !.current = TokEof]

check(p, token_type) == p.current.token_type = token_type

\* A rule's result: Err(msg) with err # "", or Ok(ast); p is the parser after it.
PErr(p, msg) == [err |-> msg, ast |-> AstBlock(<< >>), p |-> p]

POk(p, ast) == [err |-> "", ast |-> ast, p |-> p]

make_error(p, msg) == msg

consume(p, token_type, err_msg) ==
    IF p.current.token_type = token_type
    THEN POk(advance(p), AstBlock(<< >>))
    ELSE PErr(p, make_error(p, err_msg))

nil_func(p) == PErr(p, make_error(p, "Invalid parser function call!"))

literal(p) ==
    CASE p.previous.token_type = "Number"  -> POk(p, AstNumber(p.previous.num))
      [] p.previous.token_type = "String"  -> POk(p, AstString(p.previous.str))
      [] p.previous.token_type = "KwTrue"  -> POk(p, AstBool(TRUE))
      [] p.previous.token_type = "KwFalse" -> POk(p, AstBool(FALSE))
      [] OTHER -> PErr(p, make_error(p, "Unreachable error for literal()"))

RECURSIVE parse_precedence(_, _), parse_precedence_while(_, _), call_rule(_, _)
RECURSIVE unary(_), binary(_), grouping(_), block(_), block_while(_, _)
RECURSIVE if_else(_), if_else_while(_, _, _, _), while_(_), let_(_)
RECURSIVE if_else_elseif(_, _, _, _, _), if_else_elseif_cond(_, _, _, _), if_else_else(_, _, _, _)
RECURSIVE if_else_block(_, _), if_else_cond(_), while_block(_, _), while_cond(_)
RECURSIVE let_end(_, _, _, _), let_name(_, _)
RECURSIVE binary_one_level_higher(_)

\* The while loop of parse_precedence (parser.rs:151-161).
parse_precedence_while(p, precedence) ==
    IF precedence <= get_rule(p.current.token_type).precedence
    THEN LET p1 == advance(p)
             infix_rule == get_rule(p1.previous.token_type).infix
         IN  IF infix_rule = "nil_func"
             THEN PErr(p1, make_error(p1, "Expected infix expression"))
             ELSE LET r == call_rule(infix_rule, p1)
                  IN  IF r.err # "" THEN r
                      ELSE parse_precedence_while(
                               [r.p EXCEPT !.prefix_node = r.ast], precedence)
    ELSE POk(p, p.prefix_node)

parse_precedence(p, precedence) ==
    LET p1 == advance(p)
        prefix_rule == get_rule(p1.previous.token_type).prefix
    IN  IF prefix_rule = "nil_func"
        THEN PErr(p1, make_error(p1, "Expected prefix expression"))
        ELSE LET r == call_rule(prefix_rule, p1)
             IN  IF r.err # "" THEN r
                 ELSE parse_precedence_while(
                          [r.p EXCEPT !.prefix_node = r.ast], precedence)

expression(p) == parse_precedence(p, PrecAssignment)

unary(p) ==
    LET op == p.previous.token_type
        r == parse_precedence(p, PrecUnary)
    IN  IF r.err # "" THEN r
        ELSE CASE op = "Minus" -> POk(r.p, AstUnary("Negate", r.ast))
               [] op = "Bang"  -> POk(r.p, AstUnary("Not", r.ast))
               [] OTHER -> PErr(r.p, make_error(r.p, "Invalid unary operator"))

\* A variant of binary that parses its right operand one level higher.
binary_one_level_higher(p) ==
    LET left == p.prefix_node
        op == p.previous.token_type
        r == parse_precedence(p, get_rule(op).precedence + 1)
    IN  IF r.err # "" THEN r
        ELSE CASE op = "Plus"         -> POk(r.p, AstBinary("Add", left, r.ast))
               [] op = "Minus"        -> POk(r.p, AstBinary("Subtract", left, r.ast))
               [] op = "Star"         -> POk(r.p, AstBinary("Multiply", left, r.ast))
               [] op = "Slash"        -> POk(r.p, AstBinary("Divide", left, r.ast))
               [] op = "Less"         -> POk(r.p, AstBinary("Less", left, r.ast))
               [] op = "LessEqual"    -> POk(r.p, AstBinary("LessEqual", left, r.ast))
               [] op = "Greater"      -> POk(r.p, AstBinary("Greater", left, r.ast))
               [] op = "GreaterEqual" -> POk(r.p, AstBinary("GreaterEqual", left, r.ast))
               [] op = "EqualEqual"   -> POk(r.p, AstBinary("Equals", left, r.ast))
               [] op = "Equal"        -> POk(r.p, AstBinary("Assign", left, r.ast))
               [] OTHER -> PErr(r.p, make_error(r.p, "Invalid binary operator"))

binary(p) ==
    LET left == p.prefix_node
        op == p.previous.token_type
        r == parse_precedence(p, get_rule(op).precedence)
    IN  IF r.err # "" THEN r
        ELSE CASE op = "Plus"         -> POk(r.p, AstBinary("Add", left, r.ast))
               [] op = "Minus"        -> POk(r.p, AstBinary("Subtract", left, r.ast))
               [] op = "Star"         -> POk(r.p, AstBinary("Multiply", left, r.ast))
               [] op = "Slash"        -> POk(r.p, AstBinary("Divide", left, r.ast))
               [] op = "Less"         -> POk(r.p, AstBinary("Less", left, r.ast))
               [] op = "LessEqual"    -> POk(r.p, AstBinary("LessEqual", left, r.ast))
               [] op = "Greater"      -> POk(r.p, AstBinary("Greater", left, r.ast))
               [] op = "GreaterEqual" -> POk(r.p, AstBinary("GreaterEqual", left, r.ast))
               [] op = "EqualEqual"   -> POk(r.p, AstBinary("Equals", left, r.ast))
               [] op = "Equal"        -> POk(r.p, AstBinary("Assign", left, r.ast))
               [] OTHER -> PErr(r.p, make_error(r.p, "Invalid binary operator"))

grouping(p) ==
    LET r == expression(p)
    IN  IF r.err # "" THEN r
        ELSE LET c == consume(r.p, "RParen", "Expected closing right parenthesis")
             IN  IF c.err # "" THEN c ELSE POk(c.p, r.ast)

\* The while loop of block (parser.rs:219-221).
block_while(p, expr_vec) ==
    IF ~check(p, "RCurly")
    THEN LET r == expression(p)
         IN  IF r.err # "" THEN r ELSE block_while(r.p, Append(expr_vec, r.ast))
    ELSE POk(p, AstBlock(expr_vec))

block(p) ==
    LET r == block_while(p, << >>)
    IN  IF r.err # "" THEN r
        ELSE LET c == consume(r.p, "RCurly", "Expected closing right curly bracket")
             IN  IF c.err # "" THEN c ELSE POk(c.p, r.ast)

\* One else-if arm and the else arm of the loop of if_else (parser.rs:233-244),
\* each given the results of the expression() calls it makes.
if_else_elseif(if_cond, if_block, else_if_exprs, c, b) ==
    IF b.err # "" THEN b
    ELSE if_else_while(b.p, if_cond, if_block, Append(else_if_exprs, <<c.ast, b.ast>>))

if_else_elseif_cond(if_cond, if_block, else_if_exprs, c) ==
    IF c.err # "" THEN c
    ELSE if_else_elseif(if_cond, if_block, else_if_exprs, c, expression(c.p))

if_else_else(if_cond, if_block, else_if_exprs, e) ==
    IF e.err # "" THEN e
    ELSE POk(e.p, AstIfElse(if_cond, if_block, else_if_exprs, <<e.ast>>))

\* The while loop of if_else (parser.rs:233-244).
if_else_while(p, if_cond, if_block, else_if_exprs) ==
    IF check(p, "KwElse")
    THEN IF check(advance(p), "KwIf")
         THEN if_else_elseif_cond(if_cond, if_block, else_if_exprs,
                                  expression(advance(advance(p))))
         ELSE if_else_else(if_cond, if_block, else_if_exprs, expression(advance(p)))
    ELSE POk(p, AstIfElse(if_cond, if_block, else_if_exprs, << >>))

if_else_block(c, b) ==
    IF b.err # "" THEN b ELSE if_else_while(b.p, c.ast, b.ast, << >>)

if_else_cond(c) ==
    IF c.err # "" THEN c ELSE if_else_block(c, expression(c.p))

if_else(p) == if_else_cond(expression(p))

while_block(c, b) ==
    IF b.err # "" THEN b ELSE POk(b.p, AstWhile(c.ast, b.ast))

while_cond(c) ==
    IF c.err # "" THEN c ELSE while_block(c, expression(c.p))

while_(p) == while_cond(expression(p))

\* A variant of let_end that wraps every let into a Statement, with or
\* without a `;` after it.
let_end_always_statement(ident, mutable, has_val, v) ==
    IF v.err # "" THEN v
    ELSE POk(IF check(v.p, "Semicolon") THEN advance(v.p) ELSE v.p,
             AstStatement(AstLet(ident, mutable, IF has_val THEN <<v.ast>> ELSE << >>)))

\* The end of let_ (parser.rs:263-277), given the result v of the value's
\* expression() call (Ok of no AST when there is no "= value").
let_end(ident, mutable, has_val, v) ==
    IF v.err # "" THEN v
    ELSE IF check(v.p, "Semicolon")
         THEN POk(advance(v.p),
                  AstStatement(AstLet(ident, mutable, IF has_val THEN <<v.ast>> ELSE << >>)))
         ELSE POk(v.p, AstLet(ident, mutable, IF has_val THEN <<v.ast>> ELSE << >>))

let_name(mutable, c) ==
    IF c.err # "" THEN c
    ELSE let_end(c.p.previous.str, mutable, check(c.p, "Equal"),
                 IF check(c.p, "Equal") THEN expression(advance(c.p))
                 ELSE POk(c.p, AstBlock(<< >>)))

let_(p) ==
    let_name(check(p, "KwMut"),
             consume(IF check(p, "KwMut") THEN advance(p) ELSE p, "Identifier",
                     "Expected identifier for variable name"))

call_rule(rule, p) ==
    CASE rule = "grouping" -> grouping(p)
      [] rule = "block"    -> block(p)
      [] rule = "unary"    -> unary(p)
      [] rule = "binary"   -> binary(p)
      [] rule = "literal"  -> literal(p)
      [] rule = "let_"     -> let_(p)
      [] rule = "if_else"  -> if_else(p)
      [] rule = "while_"   -> while_(p)
      [] OTHER             -> nil_func(p)

\* Parser::parse: Ok(ast) or Err(msg).
parse(source) ==
    LET p == advance(Parser(source, TokEof, TokEof, AstBlock(<< >>)))
        r == expression(p)
    IN  IF r.err # "" THEN r
        ELSE LET c == consume(r.p, "Eof", "Expected EOF")
             IN  IF c.err # "" THEN c ELSE POk(c.p, r.ast)

(***************************************************************************)
(* Runtime values and bytecode (vm.rs:8-54).                               *)
(***************************************************************************)
ValueNil == [t |-> "Nil", b |-> FALSE, num |-> F64Int(0)]

ValueNumber(x) == [t |-> "Number", b |-> FALSE, num |-> x]

ValueBool(b) == [t |-> "Bool", b |-> b, num |-> F64Int(0)]

\* A ByteOp: its variant and its payload (0 for a variant without one).
ByteOp(op, arg) == [op |-> op, arg |-> arg]

Op(op) == ByteOp(op, 0)

Bytecode(constants, ops) == [constants |-> constants, ops |-> ops]

\* as i16, as u16 of an integer: the low 16 bits.
AsI16(x) == ((x + 32768) % 65536) - 32768

AsU16(x) == x % 65536

\* hash(&name): the DefaultHasher value of a variable name, here its index in
\* Names.  Two names of the model never collide.
Names == <<"x", "y", "z">>

hash(name) == CHOOSE i \in 1..Len(Names) : Names[i] = name

(***************************************************************************)
(* The lowerer (vm.rs:56-218).  ast_to_bytecode returns [err, bc]: Err(msg) *)
(* when err # "", else Ok(()) with bc the bytecode after the call.         *)
(***************************************************************************)
LErr(bc, msg) == [err |-> msg, bc |-> bc]

LOk(bc) == [err |-> "", bc |-> bc]

push_op(bc, op) == [bc EXCEPT !.ops = Append(@, op)]

set_op(bc, idx, op) == [bc EXCEPT !.ops[idx + 1] = op]

\* The search of the constant pool (vm.rs:79-88): the index of the first
\* Number equal to n, or -1.
RECURSIVE find_constant(_, _, _)
find_constant(constants, n, idx) ==
    IF idx >= Len(constants) THEN -1
    ELSE IF constants[idx + 1].t = "Number" /\ F64Eq(n, constants[idx + 1].num) THEN idx
    ELSE find_constant(constants, n, idx + 1)

lower_number(bc, n) ==
    LET found == find_constant(bc.constants, n, 0)
    IN  IF found >= 0 THEN push_op(bc, ByteOp("Load", AsU16(found)))
        ELSE LET bc1 == [bc EXCEPT !.constants = Append(@, ValueNumber(n))]
             IN  push_op(bc1, ByteOp("Load", AsU16(Len(bc1.constants) - 1)))

\* The ops of a binary operator other than Assign (vm.rs:111-129).
binary_ops(op) ==
    CASE op = "Add"          -> <<Op("Add")>>
      [] op = "Subtract"     -> <<Op("Sub")>>
      [] op = "Multiply"     -> <<Op("Mul")>>
      [] op = "Divide"       -> <<Op("Div")>>
      [] op = "Less"         -> <<Op("Less")>>
      [] op = "LessEqual"    -> <<Op("Greater"), Op("Not")>>
      [] op = "Greater"      -> <<Op("Greater")>>
      [] op = "GreaterEqual" -> <<Op("Less"), Op("Not")>>
      [] op = "Equals"       -> <<Op("Equal")>>
      [] OTHER               -> << >>

\* A variant of if_false_offset without the + 1 that steps over the arm-exit Jump.
if_false_offset_without_bias(len, last_jump_idx) == AsI16(len - last_jump_idx)

\* The patched offsets (vm.rs:173, 185, 197, 206, 207).
if_false_offset(len, last_jump_idx) == AsI16(len - last_jump_idx + 1)

if_exit_offset(len, patch) == AsI16(len - patch)

\* A variant of while_back_offset that jumps back to the op after begin.
while_back_offset_past_begin(begin_idx, len) == AsI16(begin_idx - len + 1)

while_back_offset(begin_idx, len) == AsI16(begin_idx - len)

\* A variant of while_false_offset that lands on the back jump.
while_false_offset_onto_back_jump(len, cond_jump_idx) == AsI16(len - cond_jump_idx - 1)

while_false_offset(len, cond_jump_idx) == AsI16(len - cond_jump_idx)

RECURSIVE ast_to_bytecode(_, _), lower_block_items(_, _, _, _)
RECURSIVE lower_block_items_any_position(_, _, _, _)
RECURSIVE lower_elseifs(_, _, _, _), patch_exits(_, _)

\* A variant of lower_block_items that takes an expression at any position.
lower_block_items_any_position(bc, exprs, idx, len) ==
    IF idx > len THEN LOk(bc)
    ELSE LET e == exprs[idx]
             r == IF e.node = "Statement"
                  THEN (IF e.expr.node = "Block"
                        THEN ast_to_bytecode(bc, e.expr)
                        ELSE ast_to_bytecode(bc, AstStatement(e.expr)))
                  ELSE LET x == ast_to_bytecode(bc, e)
                       IN  IF x.err # "" THEN x
                           ELSE LOk(push_op(x.bc, Op("Return")))
         IN  IF r.err # "" THEN r
             ELSE lower_block_items_any_position(r.bc, exprs, idx + 1, len)

\* The loop over a block's items (vm.rs:147-165); idx counts from 1.
lower_block_items(bc, exprs, idx, len) ==
    IF idx > len THEN LOk(bc)
    ELSE LET e == exprs[idx]
             r == IF e.node = "Statement"
                  THEN (IF e.expr.node = "Block"
                        THEN ast_to_bytecode(bc, e.expr)
                        ELSE ast_to_bytecode(bc, AstStatement(e.expr)))
                  ELSE IF idx # len
                       THEN LErr(bc, "Only the last element in a block may be an expression")
                       ELSE LET x == ast_to_bytecode(bc, e)
                            IN  IF x.err # "" THEN x
                                ELSE LOk(push_op(x.bc, Op("Return")))
         IN  IF r.err # "" THEN r ELSE lower_block_items(r.bc, exprs, idx + 1, len)

\* The loop over the else-if arms (vm.rs:180-190); returns the bytecode and
\* the patch list in [err, bc, patches].
lower_elseifs(bc, elseifs, has_else, last_patch_idx) ==
    IF elseifs = << >> THEN [err |-> "", bc |-> bc, patches |-> last_patch_idx]
    ELSE LET c == ast_to_bytecode(bc, Head(elseifs)[1])
         IN  IF c.err # "" THEN [err |-> c.err, bc |-> c.bc, patches |-> last_patch_idx]
             ELSE LET bc1 == push_op(c.bc, ByteOp("JumpFalse", 1))
                      last_jump_idx == Len(bc1.ops) - 1
                      b == ast_to_bytecode(bc1, Head(elseifs)[2])
                  IN  IF b.err # "" THEN [err |-> b.err, bc |-> b.bc, patches |-> last_patch_idx]
                      ELSE LET bc2 == set_op(b.bc, last_jump_idx,
                                          ByteOp("JumpFalse",
                                                 if_false_offset(Len(b.bc.ops), last_jump_idx)))
                               bc3 == IF has_else THEN push_op(bc2, ByteOp("Jump", 1)) ELSE bc2
                               ps == IF has_else THEN Append(last_patch_idx, Len(bc3.ops) - 1)
                                     ELSE last_patch_idx
                           IN  lower_elseifs(bc3, Tail(elseifs), has_else, ps)

\* The loop that patches the arm-exit jumps (vm.rs:196-198).
patch_exits(bc, last_patch_idx) ==
    IF last_patch_idx = << >> THEN bc
    ELSE LET patch == Head(last_patch_idx)
         IN  patch_exits(set_op(bc, patch, ByteOp("Jump", if_exit_offset(Len(bc.ops), patch))),
                         Tail(last_patch_idx))

lower_if_else(bc, ast) ==
    LET c == ast_to_bytecode(bc, ast.cond)
    IN  IF c.err # "" THEN c
        ELSE LET bc1 == push_op(c.bc, ByteOp("JumpFalse", 1))
                 last_jump_idx == Len(bc1.ops) - 1
                 b == ast_to_bytecode(bc1, ast.expr)
             IN  IF b.err # "" THEN b
                 ELSE LET bc2 == set_op(b.bc, last_jump_idx,
                                     ByteOp("JumpFalse",
                                            if_false_offset(Len(b.bc.ops), last_jump_idx)))
                          has_else == ast.elseexpr # << >>
                          bc3 == IF has_else THEN push_op(bc2, ByteOp("Jump", 1)) ELSE bc2
                          ps == IF has_else THEN <<Len(bc3.ops) - 1>> ELSE << >>
                          ei == lower_elseifs(bc3, ast.elseifs, has_else, ps)
                      IN  IF ei.err # "" THEN LErr(ei.bc, ei.err)
                          ELSE LET e == IF has_else THEN ast_to_bytecode(ei.bc, ast.elseexpr[1])
                                        ELSE LOk(ei.bc)
                               IN  IF e.err # "" THEN e
                                   ELSE LOk(patch_exits(e.bc, ei.patches))

lower_while(bc, ast) ==
    LET begin_idx == Len(bc.ops)
        c == ast_to_bytecode(bc, ast.cond)
    IN  IF c.err # "" THEN c
        ELSE LET bc1 == push_op(c.bc, ByteOp("JumpFalse", 1))
                 cond_jump_idx == Len(bc1.ops) - 1
                 b == ast_to_bytecode(bc1, ast.expr)
             IN  IF b.err # "" THEN b
                 ELSE LET bc2 == push_op(b.bc,
                                     ByteOp("Jump", while_back_offset(begin_idx, Len(b.bc.ops))))
                      IN  LOk(set_op(bc2, cond_jump_idx,
                                     ByteOp("JumpFalse",
                                            while_false_offset(Len(bc2.ops), cond_jump_idx))))

\* A variant of lower_assign that lowers the target as an expression and
\* takes any target.
lower_assign_any_target(bc, ast) ==
    LET l == ast_to_bytecode(bc, ast.l)
    IN  IF l.err # "" THEN l
        ELSE LET r == ast_to_bytecode(l.bc, ast.r)
             IN  IF r.err # "" THEN r
                 ELSE LOk(push_op(r.bc, ByteOp("SetVar",
                                 IF ast.l.node = "Identifier" THEN hash(ast.l.name) ELSE 1)))

\* Binary(Assign, l, r) (vm.rs:101-107).
lower_assign(bc, ast) ==
    IF ast.l.node = "Identifier"
    THEN LET r == ast_to_bytecode(bc, ast.r)
         IN  IF r.err # "" THEN r
             ELSE LOk(push_op(r.bc, ByteOp("SetVar", hash(ast.l.name))))
    ELSE LErr(bc, "Assign must assign to variable")

lower_block(bc, ast) ==
    LET r == lower_block_items(push_op(bc, Op("ScopeOpen")), ast.exprs, 1, Len(ast.exprs))
    IN  IF r.err # "" THEN r ELSE LOk(push_op(r.bc, Op("ScopeClose")))

ast_to_bytecode(bc, ast) ==
    CASE ast.node = "Identifier" -> LOk(push_op(bc, ByteOp("GetVar", hash(ast.name))))
      [] ast.node = "Number" -> LOk(lower_number(bc, ast.num))
      [] ast.node = "Bool" -> LOk(push_op(bc, IF ast.b THEN Op("True") ELSE Op("False")))
      [] ast.node = "Statement" ->
            LET r == ast_to_bytecode(bc, ast.expr)
            IN  IF r.err # "" THEN r ELSE LOk(push_op(r.bc, Op("Pop")))
      [] ast.node = "Binary" ->
            IF ast.op = "Assign"
            THEN lower_assign(bc, ast)
            ELSE LET l == ast_to_bytecode(bc, ast.l)
                 IN  IF l.err # "" THEN l
                     ELSE LET r == ast_to_bytecode(l.bc, ast.r)
                          IN  IF r.err # "" THEN r
                              ELSE LOk([r.bc EXCEPT !.ops = @ \o binary_ops(ast.op)])
      [] ast.node = "Unary" ->
            LET r == ast_to_bytecode(bc, ast.expr)
            IN  IF r.err # "" THEN r
                ELSE LOk(push_op(r.bc, IF ast.op = "Negate" THEN Op("Negate") ELSE Op("Not")))
      [] ast.node = "Return" ->
            LET r == ast_to_bytecode(bc, ast.expr)
            IN  IF r.err # "" THEN r ELSE LOk(push_op(r.bc, Op("Return")))
      [] ast.node = "Block" -> lower_block(bc, ast)
      [] ast.node = "IfElse" -> lower_if_else(bc, ast)
      [] ast.node = "While" -> lower_while(bc, ast)
      [] ast.node = "Let" ->
            LET r == IF ast.set_expr # << >> THEN ast_to_bytecode(bc, ast.set_expr[1])
                     ELSE LOk(bc)
            IN  IF r.err # "" THEN r
                ELSE LOk(push_op(r.bc, ByteOp("DefVar", hash(ast.name))))
      [] OTHER -> LErr(bc, "Non implemented AST node " \o ast.node)

\* Bytecode::new
Bytecode_new(ast) == ast_to_bytecode(Bytecode(<< >>, << >>), ast)

(***************************************************************************)
(* The state: one shell line (repl.rs), or one use of Bytecode::new or     *)
(* StackVm::run by a caller of the library, at a time.                     *)
(*   phase   "prompt": nothing submitted; "parse", "lower": the call is    *)
(*           about to be made; "run": the VM loop is at ip_idx;            *)
(*           "ParseError", "LowerError": the Err of parse / Bytecode::new; *)
(*           "Halted": run returned Ok(result); "Faulted": run returned    *)
(*           Err(message); "Panicked": the thread panicked (message).      *)
(*   origin  what was submitted: "source", "ast" or "bytecode"             *)
(*   ip_idx, stack, scopes: the StackVm's fields (vm.rs:224-228).  A       *)
(*           negative ip_idx k stands for the usize 2^64 + k that          *)
(*           (ip_idx as isize + d) as usize wraps to.                    *)
(*   open_depths  a history variable, not a field of the program: for      *)
(*           each ScopeOpen executed and not yet answered by a ScopeClose, *)
(*           the depth of the scope stack just before it.                  *)
(***************************************************************************)
VARIABLES phase, origin, source, ast, bc, ip_idx, stack, scopes, result, message,
          open_depths, patching, twin

vars == <<phase, origin, source, ast, bc, ip_idx, stack, scopes, result, message,
          open_depths, patching, twin>>

\* patching is the jump patch a lowering is about to make (unused while a
\* whole AST is lowered in one step); twin is the second VM of a comparison
\* of two runs (unused while one VM runs).
aside == <<patching, twin>>

\* Bounds of the model: the operand stack and the scope stack stop growing
\* there (a loop that pushes for ever is cut).
MaxStack == 4

MaxScopes == 3

NoAst == AstBlock(<< >>)

NoBytecode == Bytecode(<< >>, << >>)

\* No jump patch is pending;
\* site is the statement that stores the jump, len is bc.ops.len() there, idx
\* the index the arm remembered, offset the operand stored, err the error the
\* arm returned ("" for none).
NoPatch == [site |-> "none", len |-> 0, idx |-> 0, offset |-> 0, done |-> FALSE, err |-> ""]

\* The fields of a StackVm together with what its run has returned.
VmOf(ph, ip, st, sc, res, msg, depths) ==
    [phase |-> ph, ip_idx |-> ip, stack |-> st, scopes |-> sc, result |-> res,
     message |-> msg, open_depths |-> depths]

\* No second VM is running.
NoTwin == [mode |-> "idle", from |-> VmOf("prompt", 0, << >>, << >>, ValueNil, "", << >>),
           other |-> VmOf("prompt", 0, << >>, << >>, ValueNil, "", << >>)]

(***************************************************************************)
(* StackVm (vm.rs:220-574).                                                *)
(***************************************************************************)
\* Scope { variables }: a function from the ids it holds to their values.
EmptyScope == << >>

HasVar(scope, id) == id \in DOMAIN scope

\* var_in_scopes / var_in_scopes_mut: the index (1 = outermost) of the
\* innermost scope that holds id, 0 for None.
RECURSIVE var_in_scopes_from(_, _, _)
var_in_scopes_from(scope_stack, id, i) ==
    IF i = 0 THEN 0
    ELSE IF HasVar(scope_stack[i], id) THEN i
    ELSE var_in_scopes_from(scope_stack, id, i - 1)

var_in_scopes(scope_stack, id) == var_in_scopes_from(scope_stack, id, Len(scope_stack))

var_in_scopes_mut(scope_stack, id) == var_in_scopes_from(scope_stack, id, Len(scope_stack))

\* HashMap::insert
Insert(scope, id, val) == [k \in (DOMAIN scope) \cup {id} |-> IF k = id THEN val ELSE scope[k]]

\* stack_peek(distance) is defined when the stack holds more than distance
\* values; otherwise the index underflows and the thread panics.
CanPeek(distance) == Len(stack) > distance

stack_peek(distance) == stack[Len(stack) - distance]

Pop1(s) == SubSeq(s, 1, Len(s) - 1)

\* bc.ops.get(self.ip_idx)
Fetch == IF ip_idx >= 0 /\ ip_idx < Len(bc.ops) THEN bc.ops[ip_idx + 1] ELSE Op("None")

At(op) == phase = "run" /\ Fetch.op = op

\* The ways an arm of run ends.
ContinueScoped(new_stack, new_scopes, new_depths) ==
    /\ Len(new_stack) <= MaxStack
    /\ Len(new_scopes) <= MaxScopes
    /\ stack' = new_stack
    /\ scopes' = new_scopes
    /\ open_depths' = new_depths
    /\ ip_idx' = ip_idx + 1
    /\ UNCHANGED <<phase, origin, source, ast, bc, result, message, aside>>

Continue(new_stack, new_scopes) == ContinueScoped(new_stack, new_scopes, open_depths)

JumpTo(new_stack, new_ip) ==
    /\ stack' = new_stack
    /\ ip_idx' = new_ip
    /\ UNCHANGED <<phase, origin, source, ast, bc, scopes, result, message, open_depths, aside>>

ReturnErr(msg) ==
    /\ phase' = "Faulted"
    /\ message' = msg
    /\ UNCHANGED <<origin, source, ast, bc, ip_idx, stack, scopes, result, open_depths, aside>>

ReturnOk(val, new_stack, new_scopes) ==
    /\ phase' = "Halted"
    /\ result' = val
    /\ stack' = new_stack
    /\ scopes' = new_scopes
    /\ UNCHANGED <<origin, source, ast, bc, ip_idx, message, open_depths, aside>>

Panic(msg) ==
    /\ phase' = "Panicked"
    /\ message' = msg
    /\ UNCHANGED <<origin, source, ast, bc, ip_idx, stack, scopes, result, open_depths, aside>>

ErrName(name) ==
    CASE name = "Add" -> "add" [] name = "Sub" -> "sub" [] name = "Mul" -> "mul"
      [] name = "Div" -> "div" [] name = "Equal" -> "equal"
      [] name = "Greater" -> "greater" [] OTHER -> "less"

BinaryNilMsg(name) == "Binary " \o ErrName(name) \o " value cannot be nil"

BinaryBoolMsg(name) == "Binary " \o ErrName(name) \o " value cannot be bool"

BinaryResult(name, a, b) ==
    CASE name = "Add"     -> ValueNumber(F64Add(a, b))
      [] name = "Sub"     -> ValueNumber(F64Sub(a, b))
      [] name = "Mul"     -> ValueNumber(F64Mul(a, b))
      [] name = "Div"     -> ValueNumber(F64Div(a, b))
      [] name = "Equal"   -> ValueBool(F64Eq(a, b))
      [] name = "Greater" -> ValueBool(F64Gt(a, b))
      [] OTHER            -> ValueBool(F64Lt(a, b))

\* A variant of BinaryArm that pops its operands before it looks at their types.
BinaryArmPopsFirst(name) ==
    IF ~CanPeek(1) THEN Panic("stack_peek(1): index out of bounds")
    ELSE IF stack_peek(0).t # "Number" \/ stack_peek(1).t # "Number"
         THEN /\ phase' = "Faulted"
              /\ message' = BinaryNilMsg(name)
              /\ stack' = Pop1(Pop1(stack))
              /\ UNCHANGED <<origin, source, ast, bc, ip_idx, scopes, result, open_depths, aside>>
    ELSE Continue(Append(Pop1(Pop1(stack)),
                         BinaryResult(name, stack_peek(1).num, stack_peek(0).num)), scopes)

\* The arms of Add, Sub, Mul, Div, Equal, Greater and Less are the same but
\* for the operator and the messages (vm.rs:279-302 and its six copies).
BinaryArm(name) ==
    IF ~CanPeek(0) THEN Panic("stack_peek(0): index out of bounds")
    ELSE IF stack_peek(0).t = "Nil" THEN ReturnErr(BinaryNilMsg(name))
    ELSE IF stack_peek(0).t = "Bool" THEN ReturnErr(BinaryBoolMsg(name))
    ELSE IF ~CanPeek(1) THEN Panic("stack_peek(1): index out of bounds")
    ELSE IF stack_peek(1).t = "Nil" THEN ReturnErr(BinaryNilMsg(name))
    ELSE IF stack_peek(1).t = "Bool" THEN ReturnErr(BinaryBoolMsg(name))
    ELSE LET b == stack_peek(0).num
             a == stack_peek(1).num
         IN  Continue(Append(Pop1(Pop1(stack)), BinaryResult(name, a, b)), scopes)

OpLoad ==
    /\ At("Load")
    /\ IF Fetch.arg < Len(bc.constants)
       THEN Continue(Append(stack, bc.constants[Fetch.arg + 1]), scopes)
       ELSE Panic("constants: index out of bounds")

OpTrue == At("True") /\ Continue(Append(stack, ValueBool(TRUE)), scopes)

OpFalse == At("False") /\ Continue(Append(stack, ValueBool(FALSE)), scopes)

OpNil == At("Nil") /\ Continue(Append(stack, ValueNil), scopes)

OpAdd == At("Add") /\ BinaryArm("Add")

OpSub == At("Sub") /\ BinaryArm("Sub")

OpMul == At("Mul") /\ BinaryArm("Mul")

OpDiv == At("Div") /\ BinaryArm("Div")

OpEqual == At("Equal") /\ BinaryArm("Equal")

OpGreater == At("Greater") /\ BinaryArm("Greater")

OpLess == At("Less") /\ BinaryArm("Less")

NotArm ==
    IF ~CanPeek(0) THEN Panic("stack_peek(0): index out of bounds")
    ELSE IF stack_peek(0).t = "Nil" THEN ReturnErr("Unary not value cannot be nil")
    ELSE IF stack_peek(0).t = "Number" THEN ReturnErr("Unary value cannot be number")
    ELSE Continue(Append(Pop1(stack), ValueBool(~stack_peek(0).b)), scopes)

OpNot == At("Not") /\ NotArm

NegateArm ==
    IF ~CanPeek(0) THEN Panic("stack_peek(0): index out of bounds")
    ELSE IF stack_peek(0).t = "Nil" THEN ReturnErr("Unary negate value cannot be nil")
    ELSE IF stack_peek(0).t = "Bool" THEN ReturnErr("Unary negate value cannot be bool")
    ELSE Continue(Append(Pop1(stack), ValueNumber(F64Neg(stack_peek(0).num))), scopes)

OpNegate == At("Negate") /\ NegateArm

OpScopeOpen ==
    /\ At("ScopeOpen")
    /\ ContinueScoped(stack, Append(scopes, EmptyScope), Append(open_depths, Len(scopes)))

\* Vec::pop on an empty Vec returns None and changes nothing.
OpScopeClose ==
    /\ At("ScopeClose")
    /\ ContinueScoped(stack, IF scopes = << >> THEN scopes ELSE Pop1(scopes),
                      IF open_depths = << >> THEN open_depths ELSE Pop1(open_depths))

\* A variant of DefVarArm that looks for id in the innermost scope only.
DefVarArmChecksInnermostOnly(id) ==
    IF scopes = << >> THEN Panic("called Option::unwrap() on a None value")
    ELSE IF HasVar(scopes[Len(scopes)], id)
         THEN ReturnErr("Variable: " \o ToString(id) \o " arleady defined")
    ELSE LET val == IF stack # << >> THEN stack_peek(0) ELSE ValueNil
         IN  Continue(stack, [scopes EXCEPT ![Len(scopes)] = Insert(@, id, val)])

DefVarArm(id) ==
    IF var_in_scopes_mut(scopes, id) # 0 THEN ReturnErr("Variable: " \o ToString(id) \o " arleady defined")
    ELSE IF scopes = << >> THEN Panic("called Option::unwrap() on a None value")
    ELSE LET val == IF stack # << >> THEN stack_peek(0) ELSE ValueNil
         IN  Continue(stack, [scopes EXCEPT ![Len(scopes)] = Insert(@, id, val)])

OpDefVar == At("DefVar") /\ DefVarArm(Fetch.arg)

\* A variant of SetVarArm that writes into the innermost scope, whether or
\* not it is the one that holds id.
SetVarArmIntoInnermostScope(id) ==
    LET i == var_in_scopes_mut(scopes, id)
    IN  IF i = 0 THEN ReturnErr("Variable " \o ToString(id) \o " not defined")
        ELSE LET val == IF Len(stack) > 0 THEN stack_peek(0) ELSE ValueNil
             IN  Continue(stack, [scopes EXCEPT ![Len(scopes)] = Insert(@, id, val)])

SetVarArm(id) ==
    LET i == var_in_scopes_mut(scopes, id)
    IN  IF i = 0 THEN ReturnErr("Variable " \o ToString(id) \o " not defined")
        ELSE LET val == IF Len(stack) > 0 THEN stack_peek(0) ELSE ValueNil
             IN  Continue(stack, [scopes EXCEPT ![i] = Insert(@, id, val)])

OpSetVar == At("SetVar") /\ SetVarArm(Fetch.arg)

\* A variant of GetVarArm that looks into the innermost scope only.
GetVarArmInnermostOnly(id) ==
    IF scopes = << >> \/ ~HasVar(scopes[Len(scopes)], id)
    THEN ReturnErr("Failed to find variable in scope")
    ELSE Continue(Append(stack, scopes[Len(scopes)][id]), scopes)

GetVarArm(id) ==
    LET i == var_in_scopes(scopes, id)
    IN  IF i = 0 THEN ReturnErr("Failed to find variable in scope")
        ELSE Continue(Append(stack, scopes[i][id]), scopes)

OpGetVar == At("GetVar") /\ GetVarArm(Fetch.arg)

OpJump == At("Jump") /\ JumpTo(stack, ip_idx + Fetch.arg)

JumpName(on) == IF on THEN "true" ELSE "false"

\* JumpFalse (on = FALSE) and JumpTrue (on = TRUE), vm.rs:516-547.
JumpIfArm(on, distance) ==
    IF ~CanPeek(0) THEN Panic("stack_peek(0): index out of bounds")
    ELSE IF stack_peek(0).t = "Nil" THEN ReturnErr("Jump on " \o JumpName(on) \o " value cannot be nil")
    ELSE IF stack_peek(0).t = "Number" THEN ReturnErr("Jump on " \o JumpName(on) \o " value cannot be bool")
    ELSE IF stack_peek(0).b = on THEN JumpTo(Pop1(stack), ip_idx + distance)
    ELSE Continue(Pop1(stack), scopes)

OpJumpFalse == At("JumpFalse") /\ JumpIfArm(FALSE, Fetch.arg)

OpJumpTrue == At("JumpTrue") /\ JumpIfArm(TRUE, Fetch.arg)

\* A variant of OpPop that may leave the value where it is.
OpPopOrNot == At("Pop") /\ (Continue(Pop1(stack), scopes) \/ Continue(stack, scopes))

OpPop == At("Pop") /\ Continue(IF stack = << >> THEN stack ELSE Pop1(stack), scopes)

\* A variant of ReturnArm that leaves the scope stack as it is.
ReturnArmKeepsScope ==
    LET v == IF stack # << >> THEN stack_peek(0) ELSE ValueNil
        rest == IF stack # << >> THEN Pop1(stack) ELSE stack
    IN  IF Len(scopes) > 0 THEN Continue(Append(rest, v), scopes)
        ELSE ReturnOk(v, rest, scopes)

ReturnArm ==
    LET v == IF stack # << >> THEN stack_peek(0) ELSE ValueNil
        rest == IF stack # << >> THEN Pop1(stack) ELSE stack
        popped == IF scopes = << >> THEN scopes ELSE Pop1(scopes)
    IN  IF Len(popped) > 0 THEN Continue(Append(rest, v), popped)
        ELSE ReturnOk(v, rest, popped)

OpReturn == At("Return") /\ ReturnArm

\* A variant of OpNone that returns the top of the operand stack.
OpNoneReturnsTop ==
    At("None") /\ ReturnOk(IF stack # << >> THEN stack_peek(0) ELSE ValueNil, stack, scopes)

\* None: break out of the loop, then Ok(Value::Nil) (vm.rs:568-572).
OpNone == At("None") /\ ReturnOk(ValueNil, stack, scopes)

(***************************************************************************)
(* What is submitted: lines typed at the shell (token streams), ASTs       *)
(* handed to Bytecode::new, and bytecode handed to StackVm::run (Bytecode  *)
(* is Deserialize, so a caller can build any).                             *)
(***************************************************************************)
MaxChain == 2

MaxElif == 2

MaxPrefix == 2

Lits == {1, 2, 4}

ArithOps == {"Plus", "Minus", "Star", "Slash"}

\* a1 o1 a2 o2 ... an
RECURSIVE ChainTokens(_, _)
ChainTokens(nums, ops) ==
    IF ops = << >> THEN <<TNum(nums[1])>>
    ELSE <<TNum(nums[1]), Tok(ops[1])>> \o ChainTokens(Tail(nums), Tail(ops))

ArithChains ==
    UNION {{ChainTokens(nums, ops) : nums \in [1..(k + 1) -> Lits], ops \in [1..k -> ArithOps]}
           : k \in 0..MaxChain}

\* The conditions of the generated if chains, and what each evaluates to.
CondTokens == <<
    <<Tok("KwTrue")>>,
    <<Tok("KwFalse")>>,
    <<TNum(1), Tok("Less"), TNum(2)>>,
    <<TNum(2), Tok("Less"), TNum(1)>>
>>

CondTruth == <<TRUE, FALSE, TRUE, FALSE>>

BlockOfNumber(i) == <<Tok("LCurly"), TNum(i), Tok("RCurly")>>

\* if c1 { 1 } else if c2 { 2 } ... else if cn { n } [else { n + 1 }],
\* conds the indices in CondTokens of c1 ... cn.
RECURSIVE ElseIfTokens(_, _)
ElseIfTokens(conds, i) ==
    IF i > Len(conds) THEN << >>
    ELSE <<Tok("KwElse"), Tok("KwIf")>> \o CondTokens[conds[i]] \o BlockOfNumber(i)
         \o ElseIfTokens(conds, i + 1)

IfChainTokens(conds, has_else) ==
    <<Tok("KwIf")>> \o CondTokens[conds[1]] \o BlockOfNumber(1) \o ElseIfTokens(conds, 2)
    \o (IF has_else THEN <<Tok("KwElse")>> \o BlockOfNumber(Len(conds) + 1) ELSE << >>)

IfChainConds == UNION {[1..n -> 1..Len(CondTokens)] : n \in 1..(MaxElif + 1)}

IfChains == {IfChainTokens(conds, e) : conds \in IfChainConds, e \in BOOLEAN}

LetStmt(name, i) == <<Tok("KwLet"), TId(name), Tok("Equal"), TNum(i), Tok("Semicolon")>>

\* 1 + 2 * 3
Scenario1 == <<TNum(1), Tok("Plus"), TNum(2), Tok("Star"), TNum(3)>>

\* { let x = 10; let y = 20; x + y }
Scenario2 ==
    <<Tok("LCurly")>> \o LetStmt("x", 10) \o LetStmt("y", 20)
    \o <<TId("x"), Tok("Plus"), TId("y"), Tok("RCurly")>>

\* { let mut x = 0; while x < 3 { x = x + 1 }; x }
Scenario3 ==
    <<Tok("LCurly"), Tok("KwLet"), Tok("KwMut"), TId("x"), Tok("Equal"), TNum(0),
      Tok("Semicolon"), Tok("KwWhile"), TId("x"), Tok("Less"), TNum(3), Tok("LCurly"),
      TId("x"), Tok("Equal"), TId("x"), Tok("Plus"), TNum(1), Tok("RCurly"),
      Tok("Semicolon"), TId("x"), Tok("RCurly")>>

\* if 1 < 2 { 42 } else { 99 }
Scenario4 ==
    <<Tok("KwIf"), TNum(1), Tok("Less"), TNum(2)>> \o BlockOfNumber(42)
    \o <<Tok("KwElse")>> \o BlockOfNumber(99)

\* if false { 1 } else if true { 2 } else { 3 }
Scenario5 == IfChainTokens(<<2, 1>>, TRUE)

\* -(3) + !(true)
Scenario6 ==
    <<Tok("Minus"), Tok("LParen"), TNum(3), Tok("RParen"), Tok("Plus"), Tok("Bang"),
      Tok("LParen"), Tok("KwTrue"), Tok("RParen")>>

\* { let x = 1; let x = 2; x }
Scenario7 ==
    <<Tok("LCurly")>> \o LetStmt("x", 1) \o LetStmt("x", 2) \o <<TId("x"), Tok("RCurly")>>

\* Further lines: {}   while false { 1 }   let x = 1   -{}   { { 2 } }
\* { let x = 1; { 2 } }   { let x = 1; let x = 2; }   { let x = 1; { let x = 2; } }
\* { let x = 1; let y = 2; 3 }   { let x = 1; x }   1 + true   if 1 { 2 }
\* 1 <= 2   2 >= 1   2 > 1   1 == 1   while true { }   x   (1 + 2) * 4   -1 - 2
\* 1 = 2   { 1 2 }   -1   !true   1 + { let x; 2 }
\* -{}
LineNegateEmptyBlock == <<Tok("Minus"), Tok("LCurly"), Tok("RCurly")>>

\* { { 2 } }
LineNestedBlock == <<Tok("LCurly")>> \o BlockOfNumber(2) \o <<Tok("RCurly")>>

\* { let x = 1; x }
LineLetRead == <<Tok("LCurly")>> \o LetStmt("x", 1) \o <<TId("x"), Tok("RCurly")>>

\* if false { 1 }
LineIfFalse == IfChainTokens(<<2>>, FALSE)

MoreLines == {
    LineNegateEmptyBlock, LineNestedBlock, LineLetRead,
    <<Tok("LCurly"), Tok("RCurly")>>,
    <<Tok("KwWhile"), Tok("KwFalse")>> \o BlockOfNumber(1),
    <<Tok("KwLet"), TId("x"), Tok("Equal"), TNum(1)>>,
    <<Tok("LCurly")>> \o LetStmt("x", 1) \o BlockOfNumber(2) \o <<Tok("RCurly")>>,
    <<Tok("LCurly")>> \o LetStmt("x", 1) \o LetStmt("x", 2) \o <<Tok("RCurly")>>,
    <<Tok("LCurly")>> \o LetStmt("x", 1) \o <<Tok("LCurly")>> \o LetStmt("x", 2)
        \o <<Tok("RCurly"), Tok("RCurly")>>,
    <<Tok("LCurly")>> \o LetStmt("x", 1) \o LetStmt("y", 2) \o <<TNum(3), Tok("RCurly")>>,
    <<TNum(1), Tok("Plus"), Tok("KwTrue")>>,
    <<Tok("KwIf"), TNum(1)>> \o BlockOfNumber(2),
    <<TNum(1), Tok("LessEqual"), TNum(2)>>,
    <<TNum(2), Tok("GreaterEqual"), TNum(1)>>,
    <<TNum(2), Tok("Greater"), TNum(1)>>,
    <<TNum(1), Tok("EqualEqual"), TNum(1)>>,
    <<Tok("KwWhile"), Tok("KwTrue"), Tok("LCurly"), Tok("RCurly")>>,
    <<TId("x")>>,
    <<Tok("LParen"), TNum(1), Tok("Plus"), TNum(2), Tok("RParen"), Tok("Star"), TNum(4)>>,
    <<Tok("Minus"), TNum(1), Tok("Minus"), TNum(2)>>,
    <<TNum(1), Tok("Equal"), TNum(2)>>,
    <<Tok("LCurly"), TNum(1), TNum(2), Tok("RCurly")>>,
    <<Tok("Minus"), TNum(1)>>,
    <<Tok("Bang"), Tok("KwTrue")>>,
    <<TNum(1), Tok("Plus"), Tok("LCurly"), Tok("KwLet"), TId("x"), Tok("Semicolon"),
      TNum(2), Tok("RCurly")>>
}

\* 1 o1 2 o2 4 for every two operators of one precedence level that binary
\* maps to an operation.
PrecedenceLevels == {
    {"Equal"}, {"EqualEqual"}, {"Less", "LessEqual", "Greater", "GreaterEqual"},
    {"Plus", "Minus"}, {"Star", "Slash"}
}

SameLevelChains ==
    UNION {{<<TNum(1), Tok(o1), TNum(2), Tok(o2), TNum(4)>> : o1 \in level, o2 \in level}
           : level \in PrecedenceLevels}

\* let [mut] x [= 1] [;]
LetTokens(mutable, has_val, semicolon) ==
    <<Tok("KwLet")>> \o (IF mutable THEN <<Tok("KwMut")>> ELSE << >>) \o <<TId("x")>>
    \o (IF has_val THEN <<Tok("Equal"), TNum(1)>> ELSE << >>)
    \o (IF semicolon THEN <<Tok("Semicolon")>> ELSE << >>)

\* { <let> 2 }
LetThenNumber(let_tokens) == <<Tok("LCurly")>> \o let_tokens \o <<TNum(2), Tok("RCurly")>>

\* Every form of let, as the whole line and in a block before a number.
LetLines ==
    {LetTokens(m, v, s) : m \in BOOLEAN, v \in BOOLEAN, s \in BOOLEAN}
    \cup {LetThenNumber(LetTokens(m, v, s)) : m \in BOOLEAN, v \in BOOLEAN, s \in BOOLEAN}

Scenarios == {Scenario1, Scenario2, Scenario3, Scenario4, Scenario5, Scenario6, Scenario7}

SourceInputs == Scenarios \cup MoreLines \cup ArithChains \cup IfChains \cup SameLevelChains
                \cup LetLines

N(i) == AstNumber(F64Int(i))

Id(name) == AstIdentifier(name)

LetS(name, i) == AstStatement(AstLet(name, FALSE, <<N(i)>>))

\* The ASTs of scenarios 2, 3, 6 and 7.
Scenario2Ast == AstBlock(<<LetS("x", 10), LetS("y", 20), AstBinary("Add", Id("x"), Id("y"))>>)

Scenario3Ast ==
    AstBlock(<<AstStatement(AstLet("x", TRUE, <<N(0)>>)),
               AstStatement(AstWhile(AstBinary("Less", Id("x"), N(3)),
                                     AstBlock(<<AstBinary("Assign", Id("x"),
                                                          AstBinary("Add", Id("x"), N(1)))>>))),
               Id("x")>>)

Scenario6Ast ==
    AstBinary("Add", AstUnary("Negate", N(3)), AstUnary("Not", AstBool(TRUE)))

Scenario7Ast == AstBlock(<<LetS("x", 1), LetS("x", 2), Id("x")>>)

\* { let x = 1; <nested>; x } for a nested block, if or while that completes.
NestedConstructs == {
    AstBlock(<<N(2)>>),
    AstBlock(<<LetS("y", 2)>>),
    AstBlock(<< >>),
    AstIfElse(AstBool(TRUE), AstBlock(<<N(2)>>), << >>, <<AstBlock(<<N(3)>>)>>),
    AstIfElse(AstBool(FALSE), AstBlock(<<N(2)>>), << >>, <<AstBlock(<<LetS("y", 3)>>)>>),
    AstIfElse(AstBool(TRUE), AstBlock(<<LetS("y", 2)>>), << >>, << >>),
    AstWhile(AstBool(FALSE), AstBlock(<<N(2)>>)),
    AstWhile(AstBinary("Less", Id("x"), N(1)), AstBlock(<<LetS("y", 2)>>))
}

ReadAfter(nested) == AstBlock(<<LetS("x", 1), AstStatement(nested), Id("x")>>)

WriteAfter(nested) ==
    AstBlock(<<LetS("x", 1), AstStatement(nested), AstBinary("Assign", Id("x"), N(4))>>)

LifetimeAsts == {ReadAfter(c) : c \in NestedConstructs} \cup {WriteAfter(c) : c \in NestedConstructs}

\* { { let x = 1; } x }: x is read after the scope of its block is gone.
ReadAfterScope == AstBlock(<<AstStatement(AstBlock(<<LetS("x", 1)>>)), Id("x")>>)

\* Operands: a Number, a Bool, a variable holding Nil, a block that leaves
\* nothing on the operand stack.
OperandLeaves == {N(2), AstBool(TRUE), Id("x"), AstBlock(<< >>)}

BinaryOperations ==
    {"Add", "Subtract", "Multiply", "Divide", "Less", "LessEqual", "Greater",
     "GreaterEqual", "Equals"}

\* { let x; <e> }: x holds Nil.
WithNilX(e) == AstBlock(<<AstStatement(AstLet("x", FALSE, << >>)), e>>)

OperandAsts ==
    {WithNilX(AstBinary(op, l, r)) : op \in BinaryOperations, l \in OperandLeaves,
                                     r \in OperandLeaves}
    \cup {WithNilX(AstUnary(op, e)) : op \in {"Negate", "Not"}, e \in OperandLeaves}
    \cup {WithNilX(AstIfElse(e, AstBlock(<<N(1)>>), << >>, <<AstBlock(<<N(2)>>)>>))
          : e \in OperandLeaves}

MoreAsts == {
    ReadAfterScope,
    Scenario2Ast, Scenario3Ast, Scenario6Ast, Scenario7Ast,
    Id("x"),
    AstBinary("Assign", Id("x"), N(1)),
    AstLet("x", FALSE, <<N(1)>>),
    AstBinary("Assign", N(1), N(2)),
    AstBlock(<<N(1), N(2)>>),
    AstString("s"),
    AstReturn(N(1)),
    AstFnCall(Id("x"), << >>),
    AstBlock(<<LetS("x", 1), AstStatement(AstBinary("Assign", Id("x"), N(5))), Id("x")>>),
    AstBlock(<<LetS("x", 1), AstStatement(AstBlock(<<LetS("x", 2)>>))>>),
    AstBlock(<<AstStatement(AstBlock(<<N(2)>>)), AstStatement(AstBlock(<< >>))>>),
    AstBlock(<<LetS("x", 1), LetS("y", 2),
               AstStatement(AstBlock(<<AstStatement(AstBinary("Assign", Id("x"), N(5)))>>)),
               Id("y")>>)
}

\* The f64 values whose == is not identity: the two zeros and NaN, next to
\* an ordinary number and an infinity.
SpecialNumbers == {F64Int(1), F64(0, 1), F64(0, -1), F64NaN, F64(1, 0)}

LiteralAsts ==
    {AstBinary(op, AstNumber(a), AstNumber(b)) : op \in {"Add", "Divide", "Equals"},
                                                 a \in SpecialNumbers, b \in SpecialNumbers}

\* while false { .. } at top level.
WhileFalseAsts == {AstWhile(AstBool(FALSE), body) : body \in NestedConstructs}

\* { k; }: a block of one statement, which leaves no value behind.
ArmBody(k) == AstBlock(<<AstStatement(N(k))>>)

\* { if c1 { 1; } else if c2 { 2; } .. else { 4; }; }: a chain of arms with
\* literal conditions, as a statement of a block.
ArmChain(conds, has_else) ==
    AstBlock(<<AstStatement(
        AstIfElse(AstBool(conds[1]), ArmBody(1),
                  [k \in 1..(Len(conds) - 1) |-> <<AstBool(conds[k + 1]), ArmBody(2)>>],
                  IF has_else THEN <<ArmBody(4)>> ELSE << >>))>>)

ArmChains ==
    {ArmChain(conds, has_else) : conds \in UNION {[1..n -> BOOLEAN] : n \in 1..(MaxElif + 1)},
                                 has_else \in BOOLEAN}

\* The most iterations of a counting loop.
MaxLoops == 2

\* { let mut x = 0; while x < n { x = x + 1; }; x }
CountLoop(n) ==
    AstBlock(<<AstStatement(AstLet("x", TRUE, <<N(0)>>)),
               AstStatement(AstWhile(AstBinary("Less", Id("x"), N(n)),
                                     AstBlock(<<AstStatement(
                                         AstBinary("Assign", Id("x"),
                                                   AstBinary("Add", Id("x"), N(1))))>>))),
               Id("x")>>)

CountLoops == {CountLoop(n) : n \in 0..MaxLoops}

\* Binary(Assign, l, r) for targets that are and are not an Identifier and
\* values that do and do not lower.
AssignTargets == {Id("x"), N(1), AstBool(TRUE), AstBinary("Add", Id("x"), N(1)), AstBlock(<< >>)}

AssignValues == {N(2), Id("y"), AstBinary("Add", N(1), N(2)), AstString("s")}

AssignAsts == {AstBinary("Assign", l, r) : l \in AssignTargets, r \in AssignValues}

\* 1 + { e; 2 }: the statement e; is executed while the left operand of the
\* sum is on the operand stack.
StatementBodies == {
    AstLet("x", FALSE, << >>),
    AstLet("x", FALSE, <<N(4)>>),
    N(4),
    AstUnary("Negate", N(4)),
    AstBinary("Less", N(1), N(4)),
    AstWhile(AstBool(FALSE), AstBlock(<< >>)),
    AstIfElse(AstBool(TRUE), AstBlock(<<N(4)>>), << >>, <<AstBlock(<<N(5)>>)>>)
}

StatementUnderOperand(e) == AstBinary("Add", N(1), AstBlock(<<AstStatement(e), N(2)>>))

StatementAsts == {StatementUnderOperand(e) : e \in StatementBodies}

\* The most items of a generated block.
MaxItems == 3

\* Blocks of up to MaxItems items, each an expression, a statement or a
\* block as a statement.
BlockItems == {N(1), AstStatement(N(2)), AstStatement(AstBlock(<<N(3)>>))}

BlockShapes == {AstBlock(items) : items \in UNION {[1..n -> BlockItems] : n \in 0..MaxItems}}

AstInputs ==
    MoreAsts \cup LifetimeAsts \cup OperandAsts \cup LiteralAsts \cup WhileFalseAsts
    \cup ArmChains \cup CountLoops \cup BlockShapes \cup AssignAsts
    \cup StatementAsts

\* Submitted bytecode: up to MaxPrefix ops that set the stacks up, then any
\* one op; its constant pool is RawConstants.
RawConstants == <<ValueNumber(F64Int(2))>>

RawPushes == {ByteOp("Load", 0), Op("True"), Op("Nil"), Op("ScopeOpen")}

RawOps == {
    ByteOp("Load", 0), ByteOp("Load", 1), Op("True"), Op("False"), Op("Nil"),
    Op("Add"), Op("Sub"), Op("Mul"), Op("Div"), Op("Not"), Op("Equal"), Op("Greater"),
    Op("Less"), Op("Negate"), Op("ScopeOpen"), Op("ScopeClose"),
    ByteOp("DefVar", 1), ByteOp("SetVar", 1), ByteOp("GetVar", 1),
    ByteOp("Jump", 2), ByteOp("Jump", -1), ByteOp("JumpFalse", 2), ByteOp("JumpTrue", 2),
    ByteOp("JumpTrue", -1), Op("Pop"), Op("Return")
}

RawPrefixes == UNION {[1..n -> RawPushes] : n \in 0..MaxPrefix}

RawBytecodes == {Bytecode(RawConstants, pre \o <<op>>) : pre \in RawPrefixes, op \in RawOps}

\* StackVm::new (vm.rs:231-237) and the call of run.
StartVm(code) ==
    /\ bc' = code
    /\ ip_idx' = 0
    /\ stack' = << >>
    /\ scopes' = << >>
    /\ open_depths' = << >>

\* The shell reads a line (repl.rs:17-22).
ReadLine ==
    /\ phase = "prompt"
    /\ \E line \in SourceInputs : source' = line
    /\ phase' = "parse"
    /\ origin' = "source"
    /\ UNCHANGED <<ast, bc, ip_idx, stack, scopes, result, message, open_depths, aside>>

\* Parser::parse (repl.rs:49).
Parse ==
    /\ phase = "parse"
    /\ LET r == parse(source)
       IN  IF r.err # ""
           THEN phase' = "ParseError" /\ message' = r.err /\ UNCHANGED ast
           ELSE phase' = "lower" /\ ast' = r.ast /\ UNCHANGED message
    /\ UNCHANGED <<origin, source, bc, ip_idx, stack, scopes, result, open_depths, aside>>

\* A variant of Lower that runs whatever ops the lowering has left behind.
LowerThenRunAnyway ==
    /\ phase = "lower"
    /\ phase' = "run"
    /\ StartVm(Bytecode_new(ast).bc)
    /\ UNCHANGED <<origin, source, ast, result, message, aside>>

\* Bytecode::new, and on Ok StackVm::new and the call of run (repl.rs:56-63).
Lower ==
    /\ phase = "lower"
    /\ LET r == Bytecode_new(ast)
       IN  IF r.err # ""
           THEN /\ phase' = "LowerError" /\ message' = r.err
                /\ UNCHANGED <<bc, ip_idx, stack, scopes, open_depths>>
           ELSE /\ phase' = "run" /\ StartVm(r.bc) /\ UNCHANGED message
    /\ UNCHANGED <<origin, source, ast, result, aside>>

\* A caller of the library hands an AST to Bytecode::new (vm.rs:57).
SubmitAst ==
    /\ phase = "prompt"
    /\ \E a \in AstInputs : ast' = a
    /\ phase' = "lower"
    /\ origin' = "ast"
    /\ UNCHANGED <<source, bc, ip_idx, stack, scopes, result, message, open_depths, aside>>

\* A caller of the library hands bytecode to a new StackVm's run (vm.rs:263).
SubmitBytecode ==
    /\ phase = "prompt"
    /\ \E code \in RawBytecodes : StartVm(code)
    /\ phase' = "run"
    /\ origin' = "bytecode"
    /\ UNCHANGED <<source, ast, result, message, aside>>

\* The shell has printed the line's result or error and loops (repl.rs:17, 63-74).
NextPrompt ==
    /\ origin = "source"
    /\ phase \in {"ParseError", "LowerError", "Halted", "Faulted"}
    /\ phase' = "prompt"
    /\ origin' = "none"
    /\ source' = << >>
    /\ ast' = NoAst
    /\ bc' = NoBytecode
    /\ ip_idx' = 0
    /\ stack' = << >>
    /\ scopes' = << >>
    /\ open_depths' = << >>
    /\ result' = ValueNil
    /\ message' = ""
    /\ UNCHANGED aside

Init ==
    /\ phase = "prompt"
    /\ origin = "none"
    /\ source = << >>
    /\ ast = NoAst
    /\ bc = NoBytecode
    /\ ip_idx = 0
    /\ stack = << >>
    /\ scopes = << >>
    /\ open_depths = << >>
    /\ result = ValueNil
    /\ message = ""
    /\ patching = NoPatch
    /\ twin = NoTwin

Step ==
    \/ OpLoad \/ OpTrue \/ OpFalse \/ OpNil
    \/ OpAdd \/ OpSub \/ OpMul \/ OpDiv \/ OpEqual \/ OpGreater \/ OpLess
    \/ OpNot \/ OpNegate
    \/ OpScopeOpen \/ OpScopeClose
    \/ OpDefVar \/ OpSetVar \/ OpGetVar
    \/ OpJump \/ OpJumpFalse \/ OpJumpTrue
    \/ OpPop \/ OpReturn \/ OpNone

Next == ReadLine \/ SubmitAst \/ SubmitBytecode \/ Parse \/ Lower \/ Step \/ NextPrompt

Spec == Init /\ [][Next]_vars

(***************************************************************************)
(* The jump patches of ast_to_bytecode, one at a time.  A patch depends    *)
(* only on bc.ops.len() and on the index the arm remembered, so the        *)
(* lengths are drawn from a set that reaches past the range of i16, which  *)
(* no AST small enough to enumerate does.                                  *)
(***************************************************************************)
\* How far past its least value the remembered index is drawn.
MaxPatchIdx == 2

\* bc.ops.len() at the time of the patch: short bodies, and bodies around
\* the two ends of the range of i16 and of u16.
PatchLens == {8, 9, 100, 32766, 32767, 32768, 32769, 32770, 65536, 65537, 65539}

PatchSites == {"IfElse.if", "IfElse.elseif", "IfElse.exit", "While.back", "While.cond"}

\* The distance the arm computes in isize, before the cast.
PatchDistance(site, len, idx) ==
    CASE site \in {"IfElse.if", "IfElse.elseif"} -> len - idx + 1
      [] site = "While.back"                     -> idx - len
      [] OTHER                                   -> len - idx

\* The least index a site can remember: a condition lowers to at least one
\* op before its JumpFalse, an arm-exit Jump follows a condition, a JumpFalse
\* and a body, and a While can begin at index 0.
MinPatchIdx(site) ==
    CASE site = "While.back"  -> 0
      [] site = "IfElse.exit" -> 3
      [] OTHER                -> 1

PatchInit ==
    /\ phase = "prompt"
    /\ origin = "none"
    /\ source = << >>
    /\ ast = NoAst
    /\ bc = NoBytecode
    /\ ip_idx = 0
    /\ stack = << >>
    /\ scopes = << >>
    /\ open_depths = << >>
    /\ result = ValueNil
    /\ message = ""
    /\ twin = NoTwin
    /\ \E site \in PatchSites, len \in PatchLens, k \in 0..MaxPatchIdx :
          patching = [site |-> site, len |-> len, idx |-> MinPatchIdx(site) + k,
                      offset |-> 1, done |-> FALSE, err |-> ""]

Patched(offset) ==
    /\ ~patching.done
    /\ patching' = [patching EXCEPT !.offset = offset, !.done = TRUE]
    /\ UNCHANGED <<phase, origin, source, ast, bc, ip_idx, stack, scopes, result, message,
                   open_depths, twin>>

\* bc.ops[last_jump_idx] = JumpFalse(..) after the if arm (vm.rs:173).
PatchIf ==
    /\ patching.site = "IfElse.if"
    /\ Patched(if_false_offset(patching.len, patching.idx))

\* bc.ops[last_jump_idx] = JumpFalse(..) after an else-if arm (vm.rs:185).
PatchElseIf ==
    /\ patching.site = "IfElse.elseif"
    /\ Patched(if_false_offset(patching.len, patching.idx))

\* bc.ops[patch] = Jump(..) for each arm-exit jump (vm.rs:196-198).
PatchExit ==
    /\ patching.site = "IfElse.exit"
    /\ Patched(if_exit_offset(patching.len, patching.idx))

\* bc.ops.push(Jump(begin_idx - len)) (vm.rs:206).
PushBackJump ==
    /\ patching.site = "While.back"
    /\ Patched(while_back_offset(patching.idx, patching.len))

\* bc.ops[cond_jump_idx] = JumpFalse(..) (vm.rs:207).
PatchWhile ==
    /\ patching.site = "While.cond"
    /\ Patched(while_false_offset(patching.len, patching.idx))

PatchNext == PatchIf \/ PatchElseIf \/ PatchExit \/ PushBackJump \/ PatchWhile

PatchSpec == PatchInit /\ [][PatchNext]_vars

(***************************************************************************)
(* Two VMs that run the same bytecode.  The variables hold the VM whose    *)
(* turn it is and twin.other holds the VM that waits; the two take their   *)
(* steps in turn, the first VM one step ahead of the second.               *)
(***************************************************************************)
\* The VM that the variables hold.
VmState == VmOf(phase, ip_idx, stack, scopes, result, message, open_depths)

LoadVm(vm) ==
    /\ phase' = vm.phase
    /\ ip_idx' = vm.ip_idx
    /\ stack' = vm.stack
    /\ scopes' = vm.scopes
    /\ result' = vm.result
    /\ message' = vm.message
    /\ open_depths' = vm.open_depths

\* A second StackVm::new() whose run is called with the same bytecode.
StartTwin ==
    /\ phase = "run"
    /\ twin.mode = "idle"
    /\ twin' = [mode |-> "first", from |-> VmState,
                other |-> VmOf("run", 0, << >>, << >>, ValueNil, "", << >>)]
    /\ UNCHANGED <<phase, origin, source, ast, bc, ip_idx, stack, scopes, result, message,
                   open_depths, patching>>

\* One step of run in the VM whose turn it is: the first VM steps when the
\* two have taken equally many steps, the second when it is one step behind.
TwinStep ==
    /\ \/ twin.mode = "first" /\ VmState = twin.other
       \/ twin.mode = "second" /\ VmState = twin.from
    /\ Step

\* The first VM has taken its step: it waits and the second VM has its turn.
TurnToSecond ==
    /\ twin.mode = "first"
    /\ VmState # twin.other
    /\ LoadVm(twin.other)
    /\ twin' = [mode |-> "second", from |-> twin.other, other |-> VmState]
    /\ UNCHANGED <<origin, source, ast, bc, patching>>

\* The second VM has taken its step too: the first VM has its turn again.
TurnToFirst ==
    /\ twin.mode = "second"
    /\ VmState # twin.from
    /\ LoadVm(twin.other)
    /\ twin' = [mode |-> "first", from |-> twin.other, other |-> VmState]
    /\ UNCHANGED <<origin, source, ast, bc, patching>>

TwinNext ==
    SubmitAst \/ SubmitBytecode \/ Lower \/ StartTwin \/ TwinStep \/ TurnToSecond \/ TurnToFirst

TwinSpec == Init /\ [][TwinNext]_vars

(***************************************************************************)
(* A caller of the library that keeps its StackVm: run takes &mut self     *)
(* (vm.rs:263), so after run has returned the caller can call run on the   *)
(* same StackVm again, here with a clone of the same bytecode.             *)
(***************************************************************************)
\* run is called again on the StackVm whose run has returned; nothing in
\* run assigns ip_idx, stack or scopes before the loop (vm.rs:263-266).
RunAgain ==
    /\ origin \in {"ast", "bytecode"}
    /\ phase \in {"Halted", "Faulted"}
    /\ phase' = "run"
    /\ UNCHANGED <<origin, source, ast, bc, ip_idx, stack, scopes, result, message,
                   open_depths, aside>>

RerunNext == SubmitAst \/ SubmitBytecode \/ Lower \/ Step \/ RunAgain

RerunSpec == Init /\ [][RerunNext]_vars

(***************************************************************************)
(* The shell as a loop that goes on: when the match on the line's result   *)
(* has printed, the body of `loop` is at its end and the next iteration    *)
(* prints the prompt (repl.rs:17-19, 63-74); nothing there waits, so the   *)
(* step to the next prompt is taken whenever it stays possible.  A thread  *)
(* that has panicked takes no further step.                                *)
(***************************************************************************)
ShellSpec == Init /\ [][Next]_vars /\ WF_vars(NextPrompt)

(***************************************************************************)
(* The properties.                                                         *)
(***************************************************************************)
\* The line, the AST or the bytecode submitted has been dealt with.
Ended == phase \in {"ParseError", "LowerError", "Halted", "Faulted", "Panicked"}

HaltedWith(i) == phase = "Halted" /\ result = ValueNumber(F64Int(i))

\* The value of a1 o1 a2 ... an in arithmetic: * and / before + and -,
\* operators of one level from left to right.
ApplyArith(op, a, b) ==
    CASE op = "Plus"  -> F64Add(a, b)
      [] op = "Minus" -> F64Sub(a, b)
      [] op = "Star"  -> F64Mul(a, b)
      [] OTHER        -> F64Div(a, b)

RECURSIVE ArithValueFrom(_, _, _, _, _)
ArithValueFrom(sum, pending, term, nums, ops) ==
    IF ops = << >> THEN ApplyArith(pending, sum, term)
    ELSE IF Head(ops) \in {"Star", "Slash"}
         THEN ArithValueFrom(sum, pending, ApplyArith(Head(ops), term, Head(nums)),
                             Tail(nums), Tail(ops))
         ELSE ArithValueFrom(ApplyArith(pending, sum, term), Head(ops), Head(nums),
                             Tail(nums), Tail(ops))

ArithValue(nums, ops) == ArithValueFrom(F64Int(0), "Plus", Head(nums), Tail(nums), ops)

\* The operands and the operators of a line a1 o1 a2 ... an.
ChainNums(line) == [i \in 1..((Len(line) + 1) \div 2) |-> line[2 * i - 1].num]

ChainOps(line) == [i \in 1..(Len(line) \div 2) |-> line[2 * i].token_type]

\* C1: a line that is a bare arithmetic expression over number literals
\* halts with Number(v), v the value of the expression with * and / binding
\* tighter than + and -; 1 + 2 * 3 gives Number(7).
C1_ArithmeticLineValue ==
    (origin = "source" /\ Ended /\ source \in ArithChains \cup {Scenario1})
        => /\ phase = "Halted"
           /\ result = ValueNumber(ArithValue(ChainNums(source), ChainOps(source)))

\* C2: a block of "let name = number;" statements and a trailing expression
\* that reads the variables evaluates to the value of the trailing expression;
\* { let x = 10; let y = 20; x + y } gives Number(30).
C2_BlockOfLetsValue ==
    (origin = "source" /\ Ended)
        => /\ source = Scenario2 => HaltedWith(30)
           /\ source = LineLetRead => HaltedWith(1)

\* C3: { let mut x = 0; while x < 3 { x = x + 1 }; x } halts with Number(3):
\* the loop repeats until its condition is false and x is then still readable.
C3_WhileInBlockValue ==
    (origin = "source" /\ Ended /\ source = Scenario3) => HaltedWith(3)

\* The arm an if chain takes: the first whose condition is true, the else arm
\* (Len(conds) + 1) when none is.
RECURSIVE FirstTrueArmFrom(_, _)
FirstTrueArmFrom(conds, i) ==
    IF i > Len(conds) THEN i
    ELSE IF CondTruth[conds[i]] THEN i
    ELSE FirstTrueArmFrom(conds, i + 1)

FirstTrueArm(conds) == FirstTrueArmFrom(conds, 1)

\* C4: a top-level if / else-if / else chain whose arms are blocks with a
\* trailing number runs to the end and halts with the number of the first
\* arm whose condition is true, or of the else arm when every condition is
\* false; if 1 < 2 { 42 } else { 99 } gives Number(42).
C4_IfChainValue ==
    (origin = "source" /\ source # << >> /\ Head(source).token_type = "KwIf")
        => /\ \A conds \in IfChainConds :
                source = IfChainTokens(conds, TRUE)
                    => /\ phase = "run" => ENABLED Step
                       /\ Ended => HaltedWith(FirstTrueArm(conds))
           /\ source = Scenario4
                => /\ phase = "run" => ENABLED Step
                   /\ Ended => HaltedWith(42)

\* if false { 1 } else if true { 2 } else { 3 } has halted with Number(2).
C4_Witness == origin = "source" /\ source = Scenario5 /\ HaltedWith(2)

\* The operands an op takes from the operand stack, and the variant it wants.
OperandsNeeded(op) ==
    IF op \in {"Add", "Sub", "Mul", "Div", "Equal", "Greater", "Less"} THEN 2
    ELSE IF op \in {"Not", "Negate", "JumpFalse", "JumpTrue"} THEN 1
    ELSE 0

OperandVariant(op) == IF op \in {"Not", "JumpFalse", "JumpTrue"} THEN "Bool" ELSE "Number"

\* The op about to run finds an operand of another variant than it wants.
OperandMismatch ==
    /\ phase = "run"
    /\ \E k \in 0..(OperandsNeeded(Fetch.op) - 1) :
            CanPeek(k) /\ stack_peek(k).t # OperandVariant(Fetch.op)

\* C5: an op of Add, Sub, Mul, Div, Equal, Greater, Less, Negate, Not,
\* JumpFalse, JumpTrue that finds a required operand of another variant makes
\* run return a RuntimeError and pops nothing; the code of -(3) + !(true)
\* faults at Add with a Bool on top of the operand stack.
C5_TypeMismatchFaults ==
    [][/\ OperandMismatch => (phase' = "Faulted" /\ stack' = stack)
       /\ (origin' = "ast" /\ ast' = Scenario6Ast /\ Ended')
            => (phase' = "Faulted" /\ Fetch'.op = "Add" /\ Len(stack') = 2
                /\ stack_peek(0)'.t = "Bool")]_vars

\* The code of -(3) + !(true) has faulted at Add, both operands still there.
C5_Witness ==
    /\ origin = "ast" /\ ast = Scenario6Ast /\ phase = "Faulted"
    /\ Fetch.op = "Add" /\ Len(stack) = 2 /\ stack_peek(0).t = "Bool"

\* C6: DefVar(id) with id bound in any scope on the scope stack returns a
\* RuntimeError and changes neither the scopes nor the operand stack; the
\* line { let x = 1; let x = 2; x } ends in a RuntimeError at its second
\* DefVar.
C6_RedefinitionFaults ==
    [][/\ (phase = "run" /\ Fetch.op = "DefVar" /\ var_in_scopes(scopes, Fetch.arg) # 0)
            => (phase' = "Faulted" /\ scopes' = scopes /\ stack' = stack)
       /\ (origin' = "source" /\ source' = Scenario7 /\ Ended')
            => (phase' = "Faulted" /\ Fetch'.op = "DefVar")]_vars

\* C7: scope balance.  In lowered code, the ScopeClose of a block that was
\* entered with at least one scope open leaves the scope stack as deep as it
\* was just before the block's ScopeOpen.
C7_ScopeBalance ==
    [][(/\ phase = "run" /\ origin \in {"source", "ast"}
        /\ Fetch.op = "ScopeClose"
        /\ open_depths # << >>
        /\ open_depths[Len(open_depths)] >= 1)
            => Len(scopes') = open_depths[Len(open_depths)]]_vars

\* C8: a variable lives as long as the scope of its block.  In
\* { let x = 1; <nested>; x } and { let x = 1; <nested>; x = 4 }, nested a
\* block, an if or a while that completes, every GetVar and SetVar of x finds
\* x bound and does not fault; in { { let x = 1; } x } the GetVar of x, which
\* comes after the scope of x is gone, faults.
C8_VariableLivesWithScope ==
    (origin = "ast" /\ Fetch.op \in {"GetVar", "SetVar"} /\ Fetch.arg = hash("x"))
        => /\ (ast \in LifetimeAsts /\ phase \in {"run", "Faulted"})
                => (phase = "run" /\ var_in_scopes(scopes, hash("x")) # 0)
           /\ (ast = ReadAfterScope /\ Ended) => phase = "Faulted"

\* C9: in lowered code every jump that is taken sets ip to an index of
\* 0 .. len(ops).
C9_JumpsLandInsideOps ==
    [][(/\ phase = "run" /\ origin \in {"source", "ast"}
        /\ Fetch.op \in {"Jump", "JumpFalse", "JumpTrue"}
        /\ ip_idx' # ip_idx)
            => (ip_idx' >= 0 /\ ip_idx' <= Len(bc.ops))]_vars

\* C10: an op that finds fewer values on the operand stack than it needs
\* makes run return a RuntimeError; the VM aborts in no other way.
C10_MissingOperandFaults ==
    [][(phase = "run" /\ Len(stack) < OperandsNeeded(Fetch.op)) => phase' = "Faulted"]_vars

FitsI16(d) == d >= -32768 /\ d <= 32767

\* C11: a jump distance of an IfElse or of a While that does not fit in a
\* signed 16-bit integer makes the lowering return an error, and a stored
\* offset is always the distance that was computed.
C11_JumpOffsetRangeChecked ==
    patching.done =>
        IF FitsI16(PatchDistance(patching.site, patching.len, patching.idx))
        THEN /\ patching.err = ""
             /\ patching.offset = PatchDistance(patching.site, patching.len, patching.idx)
        ELSE patching.err # ""

\* The Number literals of an AST in the order in which ast_to_bytecode meets
\* them (the left side of an assignment is not lowered).
RECURSIVE NumbersOf(_), NumbersOfAll(_), NumbersOfArms(_)
NumbersOfAll(exprs) ==
    IF exprs = << >> THEN << >> ELSE NumbersOf(Head(exprs)) \o NumbersOfAll(Tail(exprs))

NumbersOfArms(elseifs) ==
    IF elseifs = << >> THEN << >>
    ELSE NumbersOf(Head(elseifs)[1]) \o NumbersOf(Head(elseifs)[2])
         \o NumbersOfArms(Tail(elseifs))

NumbersOf(a) ==
    CASE a.node = "Number" -> <<a.num>>
      [] a.node \in {"Statement", "Unary", "Return"} -> NumbersOf(a.expr)
      [] a.node = "Binary" ->
            IF a.op = "Assign" THEN NumbersOf(a.r) ELSE NumbersOf(a.l) \o NumbersOf(a.r)
      [] a.node = "Block" -> NumbersOfAll(a.exprs)
      [] a.node = "IfElse" ->
            NumbersOf(a.cond) \o NumbersOf(a.expr) \o NumbersOfArms(a.elseifs)
            \o NumbersOfAll(a.elseexpr)
      [] a.node = "While" -> NumbersOf(a.cond) \o NumbersOf(a.expr)
      [] a.node = "Let" -> NumbersOfAll(a.set_expr)
      [] OTHER -> << >>

IsLoad(op) == op.op = "Load"

\* C12: after an AST has been lowered no two entries of the constant pool are
\* the same Number, and the k-th Load indexes the entry that is the k-th
\* literal of the AST.
C12_PoolDeduplicated ==
    (origin \in {"source", "ast"} /\ phase = "run" /\ ip_idx = 0) =>
        LET loads == SelectSeq(bc.ops, IsLoad)
            literals == NumbersOf(ast)
        IN  /\ \A i, j \in 1..Len(bc.constants) : i < j => bc.constants[i] # bc.constants[j]
            /\ Len(loads) = Len(literals)
            /\ \A k \in 1..Len(loads) :
                  /\ loads[k].arg < Len(bc.constants)
                  /\ bc.constants[loads[k].arg + 1] = ValueNumber(literals[k])

\* The scopes (1 = outermost) that bind id.
Holders(id) == {i \in 1..Len(scopes) : id \in DOMAIN scopes[i]}

Innermost(holders) == CHOOSE i \in holders : \A j \in holders : j <= i

\* C13: GetVar(id) pushes the value that the innermost scope binding id gives
\* it and changes no scope; when no scope binds id the run returns an error
\* and the operand stack is as it was.
C13_GetVarReadsInnermost ==
    [][At("GetVar") =>
          /\ scopes' = scopes
          /\ IF Holders(Fetch.arg) = {}
             THEN phase' = "Faulted" /\ stack' = stack
             ELSE /\ phase' = "run"
                  /\ stack' = Append(stack, scopes[Innermost(Holders(Fetch.arg))][Fetch.arg])]_vars

\* A GetVar inside a nested block has just pushed the value of a variable of
\* the enclosing block.
C13_Witness ==
    /\ phase = "run"
    /\ ip_idx > 0
    /\ ip_idx <= Len(bc.ops)
    /\ bc.ops[ip_idx].op = "GetVar"
    /\ Len(scopes) >= 2
    /\ Holders(bc.ops[ip_idx].arg) = {1}
    /\ stack # << >>
    /\ stack[Len(stack)] = scopes[1][bc.ops[ip_idx].arg]

\* C14: for a line of the shell, Bytecode::new is called only on the AST that
\* parsing returned, run is called only on the bytecode that lowering
\* returned, and after a parse error or a lowering error the next thing the
\* shell does is to prompt again.
C14_PipelineDownstream ==
    [][origin = "source" =>
          /\ phase' = "lower" => (phase = "parse" /\ parse(source).err = ""
                                    /\ ast' = parse(source).ast)
          /\ (phase' = "run" /\ phase # "run") =>
                (phase = "lower" /\ Bytecode_new(ast).err = "" /\ bc' = Bytecode_new(ast).bc)
          /\ (phase = "parse" /\ parse(source).err # "") => phase' = "ParseError"
          /\ (phase = "lower" /\ Bytecode_new(ast).err # "") => phase' = "LowerError"
          /\ phase \in {"ParseError", "LowerError"} => (phase' = "prompt" /\ bc = NoBytecode)]_vars

\* A line that parses has failed in lowering and nothing was run.
C14_Witness ==
    /\ origin = "source"
    /\ phase = "LowerError"
    /\ parse(source).err = ""
    /\ bc = NoBytecode

\* The program is `while false { .. }`, at top level or as the second item
\* of a block whose first item is a let with a literal.
WhileFalseTop == ast.node = "While" /\ ast.cond = AstBool(FALSE)

WhileFalseNested ==
    /\ ast.node = "Block"
    /\ Len(ast.exprs) = 3
    /\ ast.exprs[2].node = "Statement"
    /\ ast.exprs[2].expr.node = "While"
    /\ ast.exprs[2].expr.cond = AstBool(FALSE)

\* The index of the loop's condition: a top-level loop begins the ops, the
\* nested one follows ScopeOpen, Load, DefVar, Pop.
WhileFalseBegin == IF WhileFalseTop THEN 0 ELSE 4

\* The index of the loop's back jump: after the condition, the JumpFalse and
\* as many ops as the body lowers to on its own.
WhileFalseBackJump ==
    WhileFalseBegin + 2
    + Len(Bytecode_new(IF WhileFalseTop THEN ast.expr ELSE ast.exprs[2].expr.expr).bc.ops)

\* C15: `while false { .. }` executes no instruction of its body: its
\* JumpFalse sets ip to the index directly after the back jump, ip is never
\* on the body or on the back jump, and at top level the run halts with Nil.
C15_WhileFalseSkipsBody ==
    [][(origin \in {"source", "ast"} /\ phase = "run" /\ (WhileFalseTop \/ WhileFalseNested)) =>
          /\ ip_idx = WhileFalseBegin + 1 => ip_idx' = WhileFalseBackJump + 1
          /\ phase' = "run" =>
                ~(ip_idx' >= WhileFalseBegin + 2 /\ ip_idx' <= WhileFalseBackJump)
          /\ (WhileFalseTop /\ phase' # "run") => (phase' = "Halted" /\ result' = ValueNil)]_vars

\* A top-level `while false { .. }` has halted with Nil, ip directly after
\* the back jump.
C15_Witness ==
    /\ origin = "ast"
    /\ WhileFalseTop
    /\ phase = "Halted"
    /\ result = ValueNil
    /\ ip_idx = WhileFalseBackJump + 1
    /\ bc.ops[WhileFalseBackJump + 1].op = "Jump"

\* ip is not the index of an op (an ip below 0 stands for the huge usize that
\* a jump to before the ops wraps to).
PastTheEnd == ip_idx < 0 \/ ip_idx >= Len(bc.ops)

\* C16: when ip is at or past the end of the ops the run halts with Nil,
\* whatever the operand stack holds; the empty block `{}` evaluates to Nil.
C16_EndOfOpsHaltsWithNil ==
    [][phase = "run" =>
          /\ PastTheEnd => (phase' = "Halted" /\ result' = ValueNil /\ stack' = stack)
          /\ (origin \in {"source", "ast"} /\ ast = AstBlock(<< >>) /\ phase' # "run") =>
                (phase' = "Halted" /\ result' = ValueNil /\ PastTheEnd)]_vars

\* A run has fallen off the end of the ops with a value on the operand
\* stack and has halted with Nil.
C16_Witness ==
    /\ phase = "Halted"
    /\ PastTheEnd
    /\ stack # << >>
    /\ stack[Len(stack)] # ValueNil
    /\ result = ValueNil

InArmChain == origin = "ast" /\ phase = "run" /\ ast \in ArmChains

\* The index of the first op after the chain: the ops end with the Pop of
\* the statement and the ScopeClose of the block.
AfterChain == Len(bc.ops) - 2

\* Index i is the first op after the chain, or an unconditional jump to it.
LeadsAfterChain(i) ==
    \/ i = AfterChain
    \/ /\ i >= 0 /\ i < Len(bc.ops)
       /\ bc.ops[i + 1].op = "Jump"
       /\ i + bc.ops[i + 1].arg = AfterChain

\* C18: in an IfElse with an else-if or an else arm, when the body of an arm
\* has finished (the ScopeClose of its block is executed) the run goes on
\* after the whole chain, directly or through the arm-exit jump; this also
\* for a chain with else-if arms and no else.
C18_ArmsConverge ==
    [][(/\ InArmChain
        /\ ast.exprs[1].expr.elseifs # << >> \/ ast.exprs[1].expr.elseexpr # << >>
        /\ Fetch.op = "ScopeClose"
        /\ Len(scopes) = 2) => LeadsAfterChain(ip_idx')]_vars

\* The index after the body of the arm whose JumpFalse is at index j, the
\* arm-exit jump stepped over if the arm has one: the first op of the next
\* arm, or of what follows the chain.
AfterArm(j) ==
    LET end == j + 1 + Len(Bytecode_new(ArmBody(1)).bc.ops)
    IN  IF end < Len(bc.ops) /\ bc.ops[end + 1].op = "Jump" THEN end + 1 ELSE end

\* C19: the JumpFalse of an arm whose condition is false sets ip to the first
\* op of the next arm, or to the first op after the chain when no arm
\* follows; nothing but the arm's body and its exit jump is skipped.
C19_FalseArmGoesToNextArm ==
    [][(/\ InArmChain
        /\ Fetch.op = "JumpFalse"
        /\ CanPeek(0)
        /\ stack_peek(0) = ValueBool(FALSE)) => ip_idx' = AfterArm(ip_idx)]_vars

\* The run executes a While that is the whole program or the second item,
\* after a let, of a block of three items.
HasLoop ==
    /\ origin \in {"source", "ast"}
    /\ phase = "run"
    /\ \/ ast.node = "While"
       \/ /\ ast.node = "Block"
          /\ Len(ast.exprs) = 3
          /\ ast.exprs[2].node = "Statement"
          /\ ast.exprs[2].expr.node = "While"

LoopOf == IF ast.node = "While" THEN ast ELSE ast.exprs[2].expr

\* The indices of the first op of the loop's condition, of its JumpFalse and
\* of its back jump, from the numbers of ops that the pieces lower to on
\* their own.
LoopBegin == IF ast.node = "While" THEN 0 ELSE 1 + Len(Bytecode_new(ast.exprs[1]).bc.ops)

LoopCondJump == LoopBegin + Len(Bytecode_new(LoopOf.cond).bc.ops)

LoopBackJump == LoopCondJump + 1 + Len(Bytecode_new(LoopOf.expr).bc.ops)

\* C20: the back jump of a lowered While sets ip to the first op of the
\* condition, and the JumpFalse of the condition, when taken, sets ip to the
\* index directly after the back jump.
C20_WhileJumps ==
    [][HasLoop =>
          /\ ip_idx = LoopBackJump => (Fetch.op = "Jump" /\ ip_idx' = LoopBegin)
          /\ (ip_idx = LoopCondJump /\ CanPeek(0) /\ stack_peek(0) = ValueBool(FALSE)) =>
                (Fetch.op = "JumpFalse" /\ ip_idx' = LoopBackJump + 1)]_vars

\* A counting loop has run its body twice and has left through the JumpFalse
\* of its condition.
C20_Witness ==
    /\ HasLoop
    /\ ast = CountLoop(2)
    /\ ip_idx = LoopBackJump + 1
    /\ Len(scopes) = 1
    /\ \E id \in DOMAIN scopes[1] : scopes[1][id] = ValueNumber(F64Int(2))

\* No op of the bytecode is a jump: ip reaches an index only from the one
\* before it.
NoJumps == \A i \in 1..Len(bc.ops) : bc.ops[i].op \notin {"Jump", "JumpFalse", "JumpTrue"}

\* C21: Return takes the top of the operand stack off it (Nil when the stack
\* is empty) and pops one scope; when a scope remains it pushes the value
\* back and the run goes on with the next op, otherwise run returns the value.
C21_ReturnPopsValueAndScope ==
    [][At("Return") =>
          LET v == IF stack = << >> THEN ValueNil ELSE stack[Len(stack)]
              below == IF stack = << >> THEN << >> ELSE SubSeq(stack, 1, Len(stack) - 1)
          IN  /\ Len(scopes') = (IF scopes = << >> THEN 0 ELSE Len(scopes) - 1)
              /\ \A i \in 1..Len(scopes') : scopes'[i] = scopes[i]
              /\ IF Len(scopes) >= 2
                 THEN phase' = "run" /\ stack' = Append(below, v) /\ ip_idx' = ip_idx + 1
                 ELSE phase' = "Halted" /\ result' = v]_vars

\* The Return of a nested block has popped the block's scope, has pushed the
\* number back and the run goes on in the enclosing scope.
C21_Witness ==
    /\ phase = "run"
    /\ origin = "ast"
    /\ NoJumps
    /\ ip_idx > 0
    /\ ip_idx <= Len(bc.ops)
    /\ bc.ops[ip_idx].op = "Return"
    /\ Len(scopes) >= 1
    /\ Len(open_depths) > Len(scopes)
    /\ stack # << >>
    /\ stack[Len(stack)].t = "Number"

\* C22: SetVar(id) with a value on the operand stack writes the top of the
\* stack into the binding of id in the innermost scope that binds id; the
\* operand stack, every other binding and the set of bindings of every scope
\* stay as they were.  When no scope binds id the run returns an error and
\* scopes and operand stack stay as they were.
C22_SetVarWritesInnermostBinding ==
    [][At("SetVar") =>
          IF Holders(Fetch.arg) = {}
          THEN phase' = "Faulted" /\ scopes' = scopes /\ stack' = stack
          ELSE stack # << >> =>
                  /\ phase' = "run"
                  /\ stack' = stack
                  /\ Len(scopes') = Len(scopes)
                  /\ \A i \in 1..Len(scopes) :
                        /\ DOMAIN scopes'[i] = DOMAIN scopes[i]
                        /\ \A k \in DOMAIN scopes[i] :
                              scopes'[i][k] =
                                 IF i = Innermost(Holders(Fetch.arg)) /\ k = Fetch.arg
                                 THEN stack[Len(stack)]
                                 ELSE scopes[i][k]]_vars

\* A SetVar inside a nested block has written a new value into a variable of
\* the enclosing block, next to a second variable that kept its value, and
\* the value is still on top of the operand stack.
C22_Witness ==
    /\ phase = "run"
    /\ origin = "ast"
    /\ NoJumps
    /\ ip_idx > 0
    /\ ip_idx <= Len(bc.ops)
    /\ bc.ops[ip_idx].op = "SetVar"
    /\ Len(scopes) = 2
    /\ Holders(bc.ops[ip_idx].arg) = {1}
    /\ Cardinality(DOMAIN scopes[1]) = 2
    /\ stack # << >>
    /\ stack[Len(stack)] = ValueNumber(F64Int(5))
    /\ scopes[1][bc.ops[ip_idx].arg] = ValueNumber(F64Int(5))
    /\ \E k \in DOMAIN scopes[1] : scopes[1][k] = ValueNumber(F64Int(2))

\* C23: from Running the VM only moves on to Halted(value) or to
\* Faulted(message); stated for the step the claim singles out: the DefVar
\* of a let of a line of the shell, also of a let outside any block, which
\* is executed while no scope is open, leaves the run Running, Halted or
\* Faulted.
C23_DefVarHaltsOrFaults ==
    [][(origin = "source" /\ At("DefVar")) => phase' \in {"run", "Halted", "Faulted"}]_vars

\* A Block is about to be lowered whose items lower without error when each
\* is lowered on its own.
LoweringBlock ==
    /\ phase = "lower"
    /\ ast.node = "Block"
    /\ \A i \in 1..Len(ast.exprs) : Bytecode_new(ast.exprs[i]).err = ""

\* Some item that is not a Statement stands before the last position.
Misplaced == \E i \in 1..(Len(ast.exprs) - 1) : ast.exprs[i].node # "Statement"

\* The last item of the block is an expression, not a Statement.
EndsWithExpression == ast.exprs # << >> /\ ast.exprs[Len(ast.exprs)].node # "Statement"

\* The ops end with the ops that item lowers to (the names of the ops; a
\* Load by the constant it loads), then Return, then ScopeClose.
EndsWithReturnOf(code, item) ==
    LET own == Bytecode_new(item).bc
        k == Len(own.ops)
        n == Len(code.ops)
    IN  /\ n >= k + 3
        /\ code.ops[1].op = "ScopeOpen"
        /\ code.ops[n].op = "ScopeClose"
        /\ code.ops[n - 1].op = "Return"
        /\ \A j \in 1..k :
              /\ code.ops[n - 2 - k + j].op = own.ops[j].op
              /\ own.ops[j].op = "Load" =>
                    code.constants[code.ops[n - 2 - k + j].arg + 1] = own.constants[own.ops[j].arg + 1]

LoweringAssign == phase = "lower" /\ ast.node = "Binary" /\ ast.op = "Assign"

\* C25: lowering Binary(Assign, l, r) succeeds only when l is an Identifier,
\* and the bytecode is then the code of r followed by SetVar(hash(name)),
\* with no op for l; for any other l it returns the error "Assign must
\* assign to variable" and there is no bytecode.
C25_AssignTargetIsIdentifier ==
    [][LoweringAssign =>
          /\ phase' = "run" => ast.l.node = "Identifier"
          /\ (ast.l.node = "Identifier" /\ Bytecode_new(ast.r).err = "") =>
                /\ phase' = "run"
                /\ bc'.constants = Bytecode_new(ast.r).bc.constants
                /\ bc'.ops = Append(Bytecode_new(ast.r).bc.ops,
                                    [op |-> "SetVar", arg |-> hash(ast.l.name)])
          /\ ast.l.node # "Identifier" =>
                /\ phase' = "LowerError"
                /\ message' = "Assign must assign to variable"
                /\ bc' = NoBytecode]_vars

\* An assignment of a sum to a variable has been lowered: the code of the
\* sum, then SetVar.
C25_Witness ==
    /\ origin = "ast"
    /\ phase = "run"
    /\ ip_idx = 0
    /\ ast.node = "Binary"
    /\ ast.op = "Assign"
    /\ ast.l.node = "Identifier"
    /\ ast.r.node = "Binary"
    /\ Len(bc.ops) = 4
    /\ bc.ops[3].op = "Add"
    /\ bc.ops[4] = [op |-> "SetVar", arg |-> hash(ast.l.name)]

\* The line is a o1 b o2 c: three number literals and two operator tokens
\* whose infix rule is binary, of one precedence.
TwoOperatorChain ==
    /\ Len(source) = 5
    /\ \A i \in {1, 3, 5} : source[i].token_type = "Number"
    /\ \A i \in {2, 4} :
          /\ get_rule(source[i].token_type).infix = "binary"
          /\ source[i].token_type # "BangEqual"
    /\ get_rule(source[2].token_type).precedence = get_rule(source[4].token_type).precedence

\* The BinaryOperation an operator token stands for (parser.rs:194-206).
OperationOf(token_type) ==
    CASE token_type = "Plus" -> "Add" [] token_type = "Minus" -> "Subtract"
      [] token_type = "Star" -> "Multiply" [] token_type = "Slash" -> "Divide"
      [] token_type = "Less" -> "Less" [] token_type = "LessEqual" -> "LessEqual"
      [] token_type = "Greater" -> "Greater" [] token_type = "GreaterEqual" -> "GreaterEqual"
      [] token_type = "EqualEqual" -> "Equals" [] OTHER -> "Assign"

\* C26: a chain of binary operators of one precedence groups to the right:
\* a o1 b o2 c parses to Binary(o1, a, Binary(o2, b, c)), so a - b - c is
\* a - (b - c).
C26_EqualPrecedenceGroupsRight ==
    [][(phase = "parse" /\ TwoOperatorChain) =>
          /\ phase' = "lower"
          /\ ast' = [node |-> "Binary", op |-> OperationOf(source[2].token_type),
                     l |-> [node |-> "Number", num |-> source[1].num],
                     r |-> [node |-> "Binary", op |-> OperationOf(source[4].token_type),
                            l |-> [node |-> "Number", num |-> source[3].num],
                            r |-> [node |-> "Number", num |-> source[5].num]]]]_vars

\* The line 4 - 2 - 1 has been parsed to 4 - (2 - 1).
C26_Witness ==
    /\ origin = "source"
    /\ phase = "lower"
    /\ source = <<TNum(4), Tok("Minus"), TNum(2), Tok("Minus"), TNum(1)>>
    /\ ast = AstBinary("Subtract", N(4), AstBinary("Subtract", N(2), N(1)))

\* The line is a `-` or a `!` followed by one literal.
PrefixOperatorLine ==
    /\ Len(source) = 2
    /\ source[1].token_type \in {"Minus", "Bang"}
    /\ source[2].token_type \in {"Number", "KwTrue", "KwFalse"}

\* The AST of a literal token (parser.rs:168-176).
LiteralOf(token) ==
    IF token.token_type = "Number" THEN [node |-> "Number", num |-> token.num]
    ELSE [node |-> "Bool", b |-> (token.token_type = "KwTrue")]

\* C27: a `-` or a `!` in prefix position is parsed by the unary rule, without
\* a parse error: the line `- e` parses to Unary(Negate, e) and the line
\* `! e` to Unary(Not, e).
C27_PrefixMinusAndBangAreUnary ==
    [][(phase = "parse" /\ PrefixOperatorLine) =>
          /\ phase' = "lower"
          /\ ast' = [node |-> "Unary",
                     op |-> (IF source[1].token_type = "Minus" THEN "Negate" ELSE "Not"),
                     expr |-> LiteralOf(source[2])]]_vars

\* What the let rule is to return for let [mut] x [= 1] [;].
LetOf(mutable, has_val, semicolon) ==
    LET declaration == [node |-> "Let", name |-> "x", mutable |-> mutable,
                        set_expr |-> IF has_val THEN <<[node |-> "Number", num |-> F64Int(1)]>>
                                     ELSE << >>]
    IN  IF semicolon THEN [node |-> "Statement", expr |-> declaration] ELSE declaration

\* C28: the let rule returns Statement(Let(name, mutable, init)) exactly when
\* a `;` follows the declaration, and consumes it; otherwise it returns the
\* bare Let and consumes no further token (the token after it is parsed as
\* the next item of the block).  mutable is true exactly when `mut` followed
\* `let`, and init is there exactly when `=` followed the name.
C28_LetStatementIffSemicolon ==
    [][phase = "parse" =>
          \A m \in BOOLEAN, v \in BOOLEAN, s \in BOOLEAN :
             /\ source = LetTokens(m, v, s) =>
                   (phase' = "lower" /\ ast' = LetOf(m, v, s))
             /\ source = LetThenNumber(LetTokens(m, v, s)) =>
                   (/\ phase' = "lower"
                    /\ ast' = [node |-> "Block",
                               exprs |-> <<LetOf(m, v, s),
                                           [node |-> "Number", num |-> F64Int(2)]>>])]_vars

\* The line { let mut x = 1 2 } has been parsed: a bare Let, mutable and with
\* its value, and the number after it as the next item of the block.
C28_Witness ==
    /\ origin = "source"
    /\ phase = "lower"
    /\ source = LetThenNumber(LetTokens(TRUE, TRUE, FALSE))
    /\ ast = AstBlock(<<AstLet("x", TRUE, <<N(1)>>), N(2)>>)

\* C29: every call of run starts at ip 0 with an empty operand stack and an
\* empty scope stack, also a second call of run on a StackVm whose run has
\* returned.
C29_RunStartsFresh ==
    [][(phase # "run" /\ phase' = "run") =>
          (ip_idx' = 0 /\ stack' = << >> /\ scopes' = << >>)]_vars

\* The line of the shell has failed: in parsing, in lowering, or while the
\* VM ran it (run returned Err, or an op of run panicked).
LineFailed ==
    /\ origin = "source"
    /\ phase \in {"ParseError", "LowerError", "Faulted", "Panicked"}

\* C30: every failure of a line of the shell is confined to the line: after
\* a parse error, a lowering error or a failure while the VM runs the line,
\* the loop reaches the next prompt.
C30_FailureReachesNextPrompt == LineFailed ~> (phase = "prompt")

\* The program run is 1 + { e; 2 }: Load, ScopeOpen, the code of the
\* statement e; from index 2 on, then Load, Return, ScopeClose, Add.
RunsStatementUnderOperand ==
    /\ origin \in {"source", "ast"}
    /\ phase = "run"
    /\ ast.node = "Binary"
    /\ ast.op = "Add"
    /\ ast.l.node = "Number"
    /\ ast.r.node = "Block"
    /\ Len(ast.r.exprs) = 2
    /\ ast.r.exprs[1].node = "Statement"

\* The index of the first op after the statement's code.
StatementEnd == 2 + Len(Bytecode_new(ast.r.exprs[1]).bc.ops)

\* C31: the code lowered from Statement(e) leaves the operand stack as deep
\* as it found it: in 1 + { e; 2 } the statement is entered with one value
\* on the stack (the left operand) and one value is there when its code has
\* been executed; `let x;` removes no value that was there before it.
C31_StatementKeepsDepth ==
    RunsStatementUnderOperand =>
        /\ ip_idx = 2 => Len(stack) = 1
        /\ ip_idx = StatementEnd => Len(stack) = 1

\* C32: in every state of the VM each variable id is a key of at most one
\* scope of the scope stack.
C32_IdBoundInOneScope ==
    \A i, j \in 1..Len(scopes) : i # j => (DOMAIN scopes[i]) \cap (DOMAIN scopes[j]) = {}

\* A DefVar in a nested block of an id that the enclosing block binds has
\* been refused: the run has returned an error and the id is bound in the
\* outer scope alone, next to an empty inner scope.
C32_Witness ==
    /\ phase = "Faulted"
    /\ Len(scopes) = 2
    /\ ip_idx < Len(bc.ops)
    /\ bc.ops[ip_idx + 1].op = "DefVar"
    /\ bc.ops[ip_idx + 1].arg \in DOMAIN scopes[1]
    /\ DOMAIN scopes[2] = {}

\* The AST holds a While node.
RECURSIVE HasWhile(_), AnyHasWhile(_), ArmsHaveWhile(_)
AnyHasWhile(exprs) ==
    IF exprs = << >> THEN FALSE ELSE HasWhile(Head(exprs)) \/ AnyHasWhile(Tail(exprs))

ArmsHaveWhile(elseifs) ==
    IF elseifs = << >> THEN FALSE
    ELSE HasWhile(Head(elseifs)[1]) \/ HasWhile(Head(elseifs)[2]) \/ ArmsHaveWhile(Tail(elseifs))

HasWhile(a) ==
    CASE a.node = "While" -> TRUE
      [] a.node \in {"Statement", "Unary", "Return"} -> HasWhile(a.expr)
      [] a.node = "Binary" -> HasWhile(a.l) \/ HasWhile(a.r)
      [] a.node = "Block" -> AnyHasWhile(a.exprs)
      [] a.node = "IfElse" ->
            HasWhile(a.cond) \/ HasWhile(a.expr) \/ ArmsHaveWhile(a.elseifs)
            \/ AnyHasWhile(a.elseexpr)
      [] a.node = "Let" -> AnyHasWhile(a.set_expr)
      [] OTHER -> FALSE

\* The VM runs code lowered from an AST without a While.
RunsLoopFree == phase = "run" /\ origin \in {"source", "ast"} /\ ~HasWhile(ast)

\* C33: in code lowered from an AST without a While every jump that is taken
\* has a positive offset, every executed op after which the run goes on
\* leaves ip greater than it was (so at most len(ops) ops are executed), and
\* the run ends Halted or Faulted.
C33_LoopFreeRunEnds ==
    [][RunsLoopFree =>
          /\ (Fetch.op \in {"Jump", "JumpFalse", "JumpTrue"} /\ ip_idx' # ip_idx + 1
                 /\ phase' = "run") => Fetch.arg > 0
          /\ phase' = "run" => ip_idx' > ip_idx
          /\ phase' \in {"run", "Halted", "Faulted"}]_vars

\* The loop of the run is entered on an empty operand stack: it is the whole
\* program, or it follows a let statement, which leaves nothing behind.
LoopEntersOnEmptyStack ==
    \/ ast.node = "While"
    \/ /\ ast.exprs[1].node = "Statement"
       /\ ast.exprs[1].expr.node = "Let"
       /\ ast.exprs[1].expr.set_expr # << >>

\* C34: every arrival at the first op of a While's condition, the first and
\* the ones through the back jump, and the arrival at the op after the loop
\* find the operand stack as deep as it was when the loop was entered,
\* however many times the body has run.
C34_LoopKeepsDepth ==
    (HasLoop /\ LoopEntersOnEmptyStack) =>
        /\ ip_idx = LoopBegin => Len(stack) = 0
        /\ ip_idx = LoopBackJump + 1 => Len(stack) = 0

====
